---- MODULE Spec2Model ----
(***************************************************************************)
(* CTF-Dojo forge: the binary-runtime-compatibility resolver               *)
(* (forge/ctf_forge.py), the architecture aggregator (forge/analysis.py)   *)
(* and the bounded generate/validate/retry loop (ctf_forge.py,             *)
(* forge/generation.py, forge/validators.py).                              *)
(*                                                                         *)
(* Specifications that share the module:                                   *)
(*   Spec           one call of test_binary_library_configurations or of   *)
(*                  generate_library_fix_commands;                         *)
(*   SpecArch       one call of get_binary_architecture;                   *)
(*   SpecRetry      one call of process_task's Dockerfile step, i.e. of    *)
(*                  generate_dockerfile_with_retries;                      *)
(*   SpecValidate   validate_dockerfile and check_dockerfile_file_existence*)
(*                  on one artifact;                                       *)
(*   SpecPool       the loop of main over the tasks;                       *)
(*   SpecSelect     one call of select_compatible_base_image;              *)
(*   SpecInventory  one call of detect_provided_libraries.                 *)
(* Each specification leaves the variables of the others untouched.        *)
(***************************************************************************)
EXTENDS Integers, Sequences, FiniteSets, TLC

VARIABLES
    \* ---- resolver (Spec) ----
    entry,            \* which function the caller invoked
    binary_files,     \* parameter: list of binary file names
    provided_libs,    \* parameter: role -> path (detect_provided_libraries)
    task_path,        \* parameter: "" or the task directory
    binary_exists,    \* file system: does task_dir / binary_files[0] exist
    libc_version,     \* file system: what detect_glibc_version finds in the libc
    pc,               \* position of the call in the code
    test_results,     \* the local dict test_results
    attempted,        \* history: the tiers whose test was entered, in order
    result,           \* value returned by test_binary_library_configurations
    fix_commands,     \* value returned by generate_library_fix_commands
    fs,               \* file system: path -> content, a path being <<directory, name>>
    written,          \* history: the paths the tiers created or rewrote
    \* ---- architecture aggregator (SpecArch) ----
    task_files,       \* parameter: list of file names
    disk,             \* file system: file name -> what is at task_dir / name
    file_idx,         \* loop position in task_files
    files_32bit,      \* local list
    files_64bit,      \* local list
    arch_pc,          \* position of the call
    arch_result,      \* value returned by get_binary_architecture
    \* ---- generate / validate / retry loop (SpecRetry) ----
    task_data,        \* parameter and file system: the task and what its files hold
    max_retries,      \* parameter: bound of the inner loop
    dockerfile_retry_count,  \* local of generate_dockerfile_with_retries
    dockerfile_generated,    \* local of generate_dockerfile_with_retries
    dockerfile_content,      \* local of generate_dockerfile_with_retries
    parsed_flag,             \* local of generate_dockerfile_with_retries
    is_valid,                \* local of generate_dockerfile_with_retries
    validation_issues,       \* local of generate_dockerfile_with_retries
    library_fix_commands,    \* local of call_model_for_dockerfile
    attempt,                 \* local of call_model_for_dockerfile
    messages,                \* local of call_model_for_dockerfile: the request
    retry_pc,                \* position in the code
    retry_result,            \* value returned by generate_dockerfile_with_retries
    task_status,             \* what process_task does with that value
    file_issue_failures,     \* history: attempts the outer loop rejected for file issues
    oracle_requests,         \* history: the calls of completion made so far
    \* ---- the validators on their own (SpecValidate) ----
    artifact,         \* parameter dockerfile_content, as lines
    file_list,        \* parameter available_files
    report,           \* what validate_dockerfile and check_dockerfile_file_existence return
    validate_pc,      \* position: which of the two has been called
    \* ---- the worker pool of main (SpecPool) ----
    tasks,            \* local list of main: the tasks to process
    workers,          \* parameter args.workers
    futures,          \* task -> state of its future in the executor
    future_result,    \* task -> what process_single_task returned or raised
    yielded,          \* the futures as_completed has handed to main
    seq_idx,          \* position of the sequential loop
    successful,       \* local counter of main
    failed,           \* local counter of main
    pool_pc,          \* position of main
    \* ---- the base image selector (SpecSelect) ----
    select_libs,      \* parameter provided_libs
    select_path,      \* parameter task_path
    detected_version, \* file system: what detect_glibc_version finds in the libc
    select_pc,        \* position of the call
    selected_image,   \* value returned by select_compatible_base_image
    \* ---- the library inventory (SpecInventory) ----
    inventory_files,  \* parameter available_files
    inventory_idx,    \* loop position in available_files
    inventory,        \* the local dict libs
    inventory_pc      \* position of the call

resolverVars == <<entry, binary_files, provided_libs, task_path, binary_exists,
                  libc_version, pc, test_results, attempted, result, fix_commands,
                  fs, written>>

archVars == <<task_files, disk, file_idx, files_32bit, files_64bit, arch_pc, arch_result>>

retryVars == <<task_data, max_retries, dockerfile_retry_count, dockerfile_generated,
               dockerfile_content, parsed_flag, is_valid, validation_issues,
               library_fix_commands, attempt, messages, retry_pc, retry_result,
               task_status, file_issue_failures, oracle_requests>>

validateVars == <<artifact, file_list, report, validate_pc>>

poolVars == <<tasks, workers, futures, future_result, yielded, seq_idx, successful,
              failed, pool_pc>>

selectVars == <<select_libs, select_path, detected_version, select_pc, selected_image>>

inventoryVars == <<inventory_files, inventory_idx, inventory, inventory_pc>>

toolVars == <<poolVars, selectVars, inventoryVars>>

nonResolverVars == <<archVars, retryVars, validateVars, toolVars>>

nonArchVars == <<resolverVars, retryVars, validateVars, toolVars>>

nonRetryVars == <<resolverVars, archVars, validateVars, toolVars>>

nonValidateVars == <<resolverVars, archVars, retryVars, toolVars>>

mainVars == <<resolverVars, archVars, retryVars, validateVars>>

vars == <<mainVars, toolVars>>

(***************************************************************************)
(* Bounds of the model.                                                    *)
(***************************************************************************)
MaxBinaries == 2
MaxFiles == 3
MaxRetries == 2

(***************************************************************************)
(* Helpers.                                                                *)
(***************************************************************************)
SeqsUpTo(S, n) == UNION {[1..k -> S] : k \in 0..n}

\* Python truthiness of a dict / list.
Truthy(d) == DOMAIN d # {}

(***************************************************************************)
(* select_compatible_base_image.  A GLIBC version is <<major, minor>>;     *)
(* <<>> stands for None (detect_glibc_version found nothing).              *)
(***************************************************************************)
version_mapping(v) ==
    CASE v = <<2, 23>> -> "ubuntu:16.04"
      [] v = <<2, 24>> -> "ubuntu:16.04"
      [] v = <<2, 25>> -> "ubuntu:17.04"
      [] v = <<2, 26>> -> "ubuntu:18.04"
      [] v = <<2, 27>> -> "ubuntu:18.04"
      [] v = <<2, 28>> -> "ubuntu:18.04"
      [] v = <<2, 29>> -> "ubuntu:19.04"
      [] v = <<2, 30>> -> "ubuntu:20.04"
      [] v = <<2, 31>> -> "ubuntu:20.04"
      [] v = <<2, 32>> -> "ubuntu:20.04"
      [] v = <<2, 33>> -> "ubuntu:21.04"
      [] v = <<2, 34>> -> "ubuntu:21.10"
      [] v = <<2, 35>> -> "ubuntu:22.04"
      [] v = <<2, 36>> -> "ubuntu:22.04"
      [] v = <<2, 37>> -> "ubuntu:22.04"
      [] v = <<2, 38>> -> "ubuntu:23.04"
      [] OTHER -> ""

default_base == "ubuntu:20.04"

select_compatible_base_image(libs, path, glibc_version) ==
    IF ~Truthy(libs) \/ "libc" \notin DOMAIN libs THEN default_base
    ELSE IF path = "" THEN default_base
    ELSE IF glibc_version = <<>> THEN default_base
    ELSE IF version_mapping(glibc_version) # "" THEN version_mapping(glibc_version)
    ELSE LET major == glibc_version[1]
             minor == glibc_version[2]
         IN  IF major = 2 /\ minor <= 23 THEN "ubuntu:16.04"
             ELSE IF major = 2 /\ minor <= 27 THEN "ubuntu:18.04"
             ELSE IF major = 2 /\ minor <= 31 THEN "ubuntu:20.04"
             ELSE "ubuntu:22.04"

(***************************************************************************)
(* Inputs of the resolver.                                                 *)
(***************************************************************************)
BinaryNames == <<"chall", "helper", "extra", "spare">>

BinaryLists == {SubSeq(BinaryNames, 1, k) : k \in 0..MaxBinaries}

LibPath == [dynamic_linker |-> "ld-linux.so.2", libc |-> "libc.so.6", libssl |-> "libssl.so"]

LibraryInventories == {[k \in S |-> LibPath[k]] : S \in SUBSET {"dynamic_linker", "libc", "libssl"}}

GlibcVersions == {<<>>, <<2, 19>>, <<2, 23>>, <<2, 31>>, <<2, 39>>}

(***************************************************************************)
(* What a step of a tier can do.  A subprocess.run of the test binary       *)
(* either returns (exit code, lower-cased stderr), or raises               *)
(* TimeoutExpired, or raises another exception.  stderr is the set of the  *)
(* substrings the code looks for that occur in it.                         *)
(***************************************************************************)
SIGSEGV == -11

ExitCodes == {0, 1, SIGSEGV}

StderrSamples ==
    { {}, {"segmentation fault"}, {"core dumped"}, {"cannot execute binary file"},
      {"no such file or directory"}, {"no such file or directory", "ld-linux"},
      {"wrong elf class"}, {"incompatible"} }

RunOutcomes ==
    [kind : {"exit"}, code : ExitCodes, stderr : StderrSamples]
      \cup {[kind |-> "timeout", code |-> 0, stderr |-> {}],
            [kind |-> "raise", code |-> 0, stderr |-> {}]}

\* shutil.copy2 into the temporary directory: succeeds or raises.
CopyOutcomes == {"ok", "raise"}

\* subprocess.run(['patchelf', ...], timeout=10): returns 0, returns non-zero,
\* raises TimeoutExpired, or raises another exception (patchelf not installed).
PatchelfOutcomes == {"ok", "nonzero", "timeout", "raise"}

(***************************************************************************)
(* The dict test_results as created on entry.                              *)
(***************************************************************************)
InitialTestResults ==
    [system_libs |-> FALSE,
     custom_libc_only |-> FALSE,
     custom_dynamic_linker |-> FALSE,
     working_config |-> "unknown",
     commands |-> <<>>,
     reason |-> "No working configuration found",
     detected_issues |-> <<>>,
     recommended_base_image |-> "ubuntu:20.04"]

NoResult == [working_config |-> "(not returned)", commands |-> <<>>, reason |-> ""]

AddIssue(tr, issue) == [tr EXCEPT !.detected_issues = Append(@, issue)]

(***************************************************************************)
(* Tier 1: system libraries.  The try block copies the binary and runs it. *)
(***************************************************************************)
segfault_indicators(run) ==
    \/ run.code = SIGSEGV
    \/ "segmentation fault" \in run.stderr
    \/ "core dumped" \in run.stderr

library_error_indicators(run) ==
    \/ "cannot execute binary file" \in run.stderr
    \/ ("no such file or directory" \in run.stderr /\ "ld-linux" \in run.stderr)
    \/ "wrong elf class" \in run.stderr
    \/ "incompatible" \in run.stderr

Tier1Test(tr, copy, run) ==
    IF copy = "raise" \/ run.kind = "raise" THEN tr
    ELSE IF run.kind = "timeout" THEN [tr EXCEPT !.system_libs = TRUE]
    ELSE IF segfault_indicators(run)
         THEN AddIssue(tr, "Binary segfaults with system libraries")
    ELSE IF library_error_indicators(run)
         THEN AddIssue(tr, "Binary has library compatibility issues")
    ELSE [tr EXCEPT !.system_libs = TRUE]

(***************************************************************************)
(* Tier 2: custom libc, system dynamic linker.                             *)
(***************************************************************************)
\* A tier 2 that forgets to look at tier 1's outcome.
Tier2Guard_IgnoresTier1(libs, tr) == "libc" \in DOMAIN libs

Tier2Guard(libs, tr) == "libc" \in DOMAIN libs /\ ~tr.system_libs

Tier2Test(tr, copy, rpath, run) ==
    IF copy = "raise" THEN AddIssue(tr, "Custom libc test failed: copy")
    ELSE IF rpath = "timeout" THEN [tr EXCEPT !.custom_libc_only = TRUE]
    ELSE IF rpath = "raise" THEN AddIssue(tr, "Custom libc test failed: patchelf")
    ELSE IF rpath = "nonzero" THEN AddIssue(tr, "patchelf failed to set rpath")
    ELSE IF run.kind = "timeout" THEN [tr EXCEPT !.custom_libc_only = TRUE]
    ELSE IF run.kind = "raise" THEN AddIssue(tr, "Custom libc test failed: run")
    ELSE IF run.code # SIGSEGV THEN [tr EXCEPT !.custom_libc_only = TRUE]
    ELSE AddIssue(tr, "Custom libc with system linker still segfaults")

(***************************************************************************)
(* Tier 3: custom dynamic linker and custom libc.                          *)
(***************************************************************************)
Tier3Guard(libs, tr) ==
    /\ "dynamic_linker" \in DOMAIN libs
    /\ "libc" \in DOMAIN libs
    /\ ~tr.custom_libc_only

Tier3Test(tr, copy, interp, rpath, run) ==
    IF copy = "raise" THEN AddIssue(tr, "Custom dynamic linker test failed: copy")
    ELSE IF interp = "timeout" THEN [tr EXCEPT !.custom_dynamic_linker = TRUE]
    ELSE IF interp = "raise" THEN AddIssue(tr, "Custom dynamic linker test failed: patchelf")
    ELSE IF rpath = "timeout" THEN [tr EXCEPT !.custom_dynamic_linker = TRUE]
    ELSE IF rpath = "raise" THEN AddIssue(tr, "Custom dynamic linker test failed: patchelf")
    ELSE IF interp = "nonzero" \/ rpath = "nonzero"
         THEN AddIssue(tr, "patchelf failed to set interpreter or rpath")
    ELSE IF run.kind = "timeout" THEN [tr EXCEPT !.custom_dynamic_linker = TRUE]
    ELSE IF run.kind = "raise" THEN AddIssue(tr, "Custom dynamic linker test failed: run")
    ELSE IF run.code # SIGSEGV THEN [tr EXCEPT !.custom_dynamic_linker = TRUE]
    ELSE AddIssue(tr, "Custom dynamic linker + custom libc still segfaults")

(***************************************************************************)
(* The files a tier touches.  A path is <<directory, name>>: the task      *)
(* directory or the temporary directory of a tier, and a name relative to  *)
(* it (test_binary and the values of provided_libs are names from the      *)
(* listing of the task directory).  The content of a file is "original"    *)
(* or "patched".  Each tier creates its directory with                     *)
(* tempfile.TemporaryDirectory(), whose with-block removes it on exit,     *)
(* by return or by exception.                                              *)
(***************************************************************************)
TaskDir == "task"

TaskFiles(bins, libs, exists) ==
    [p \in {<<TaskDir, bins[k]>> : k \in {j \in DOMAIN bins : exists}}
            \cup {<<TaskDir, libs[k]>> : k \in DOMAIN libs} |-> "original"]

TempDir(tier) == "tmp_" \o tier

\* shutil.copy2(task_dir / name, Path(temp_dir) / name) for each name
CopyInto(f, temp_dir, names) ==
    [p \in DOMAIN f \cup {<<temp_dir, n>> : n \in names} |->
        IF p[1] = temp_dir THEN f[<<TaskDir, p[2]>>] ELSE f[p]]

\* A patchelf call that rewrites the binary of the task directory in place.
PatchTarget_InPlace(temp_dir, test_binary) == <<TaskDir, test_binary>>

\* The file a patchelf call of a tier rewrites: str(temp_binary).
PatchTarget(temp_dir, test_binary) == <<temp_dir, test_binary>>

\* patchelf --set-rpath or --set-interpreter on a path; only a call that
\* returns 0 has rewritten the file.
Patchelf(f, path, outcome) ==
    IF outcome = "ok" THEN [f EXCEPT ![path] = "patched"] ELSE f

\* Exit of the with-block: the temporary directory and its files are removed.
Cleanup(f, temp_dir) == [p \in {q \in DOMAIN f : q[1] # temp_dir} |-> f[p]]

\* The file system after the tier, and the paths the tier created or rewrote.
TierEffect(before, during, temp_dir) ==
    [fs      |-> Cleanup(during, temp_dir),
     written |-> {p \in DOMAIN during : p \notin DOMAIN before \/ during[p] # before[p]}]

Tier1Files(f, test_binary, copy) ==
    TierEffect(f,
               IF copy = "ok" THEN CopyInto(f, TempDir("system_libs"), {test_binary}) ELSE f,
               TempDir("system_libs"))

Tier2Files(f, test_binary, libs, copy, rpath) ==
    TierEffect(f,
               IF copy = "ok"
               THEN Patchelf(CopyInto(f, TempDir("custom_libc_only"),
                                      {test_binary, libs["libc"]}),
                             PatchTarget(TempDir("custom_libc_only"), test_binary), rpath)
               ELSE f,
               TempDir("custom_libc_only"))

Tier3Files(f, test_binary, libs, copy, interp, rpath) ==
    TierEffect(f,
               IF copy = "ok"
               THEN Patchelf(Patchelf(CopyInto(f, TempDir("custom_dynamic_linker"),
                                               {test_binary, libs["libc"],
                                                libs["dynamic_linker"]}),
                                      PatchTarget(TempDir("custom_dynamic_linker"),
                                                  test_binary),
                                      interp),
                             PatchTarget(TempDir("custom_dynamic_linker"), test_binary),
                             IF interp \in {"ok", "nonzero"} THEN rpath ELSE "not run")
               ELSE f,
               TempDir("custom_dynamic_linker"))

(***************************************************************************)
(* The commands.  A command line is a record: a comment, or a patchelf     *)
(* call on /challenge/<target> (arg is the interpreter for                 *)
(* --set-interpreter, "." for --set-rpath).                                *)
(***************************************************************************)
Comment(text) == [op |-> "#", arg |-> text, target |-> ""]
SetRpath(binary) == [op |-> "patchelf --set-rpath", arg |-> ".", target |-> binary]
SetInterpreter(linker, binary) ==
    [op |-> "patchelf --set-interpreter", arg |-> linker, target |-> binary]

(***************************************************************************)
(* Determination of working_config, commands and reason from the flags.    *)
(***************************************************************************)
DetermineConfig(tr, libs, test_binary) ==
    IF tr.system_libs
    THEN [tr EXCEPT !.working_config = "system_libs",
                    !.commands = <<>>,
                    !.reason = "Binary works with system libraries, no patchelf needed"]
    ELSE IF tr.custom_libc_only
    THEN [tr EXCEPT !.working_config = "custom_libc_only",
                    !.commands = <<Comment("Set library path for custom libc"),
                                   SetRpath(test_binary)>>,
                    !.reason = "Binary works with custom libc and system dynamic linker"]
    ELSE IF tr.custom_dynamic_linker
    THEN [tr EXCEPT !.working_config = "custom_dynamic_linker",
                    !.commands = <<Comment("Set custom interpreter and library path"),
                                   SetInterpreter(libs["dynamic_linker"], test_binary),
                                   SetRpath(test_binary)>>,
                    !.reason = "Binary requires both custom dynamic linker and custom libc"]
    ELSE LET u == [tr EXCEPT !.working_config = "unknown",
                             !.commands = <<>>,
                             !.reason = "No working library configuration found - all tests failed"]
         IN  IF Truthy(libs)
             THEN AddIssue(AddIssue(u, "Consider using compatible base image"),
                           "Consider using system dynamic linker with LD_LIBRARY_PATH")
             ELSE u

(***************************************************************************)
(* generate_library_fix_commands: the heuristic used when no test ran or   *)
(* the test found nothing.                                                 *)
(***************************************************************************)
HeuristicCommands(libs, bins) ==
    IF "dynamic_linker" \in DOMAIN libs
    THEN [i \in 1..(1 + 2 * Len(bins)) |->
            IF i = 1 THEN Comment("Fix interpreter and library paths for provided libraries")
            ELSE IF i % 2 = 0 THEN SetInterpreter(libs["dynamic_linker"], bins[i \div 2])
            ELSE SetRpath(bins[i \div 2])]
    ELSE IF "libc" \in DOMAIN libs
    THEN [i \in 1..(1 + Len(bins)) |->
            IF i = 1 THEN Comment("Set library path for provided libraries")
            ELSE SetRpath(bins[i - 1])]
    ELSE <<>>

\* A generator that hands back the tested commands whatever the outcome,
\* without the heuristic for an unresolved test.
FixCommandsAfterTest_NoHeuristic(res, libs, bins) == res.commands

FixCommandsAfterTest(res, libs, bins) ==
    IF res.working_config = "system_libs" THEN <<>>
    ELSE IF res.working_config \in {"custom_libc_only", "custom_dynamic_linker"}
    THEN res.commands
    ELSE HeuristicCommands(libs, bins)

(***************************************************************************)
(* Spec: the resolver as a state machine.                                  *)
(***************************************************************************)
ResolverInit ==
    /\ entry \in {"test_binary_library_configurations", "generate_library_fix_commands"}
    /\ binary_files \in BinaryLists
    /\ provided_libs \in LibraryInventories
    /\ task_path \in {"", "/task"}
    /\ binary_exists \in BOOLEAN
    /\ libc_version \in GlibcVersions
    /\ pc = IF entry = "generate_library_fix_commands" THEN "fix_entry" ELSE "check_inputs"
    /\ test_results = InitialTestResults
    /\ attempted = <<>>
    /\ result = NoResult
    /\ fix_commands = <<>>
    /\ fs = TaskFiles(binary_files, provided_libs, binary_exists)
    /\ written = {}

\* generate_library_fix_commands up to the call of the resolver.
FixEntry ==
    /\ pc = "fix_entry"
    /\ IF ~Truthy(provided_libs) \/ binary_files = <<>>
       THEN pc' = "fix_done" /\ fix_commands' = <<>>
       ELSE IF task_path # ""
       THEN pc' = "check_inputs" /\ UNCHANGED fix_commands
       ELSE pc' = "fix_done" /\ fix_commands' = HeuristicCommands(provided_libs, binary_files)
    /\ UNCHANGED nonResolverVars
    /\ UNCHANGED <<entry, binary_files, provided_libs, task_path, binary_exists,
                   libc_version, test_results, attempted, result, fs, written>>

\* The two early returns of test_binary_library_configurations.
CheckInputs ==
    /\ pc = "check_inputs"
    /\ IF binary_files = <<>>
       THEN /\ result' = [working_config |-> "none", commands |-> <<>>,
                          reason |-> "No binary files to test"]
            /\ pc' = "returned"
            /\ UNCHANGED test_results
       ELSE IF ~binary_exists
       THEN /\ test_results' = [test_results EXCEPT !.reason = "Test binary not found"]
            /\ result' = test_results'
            /\ pc' = "returned"
       ELSE /\ pc' = "glibc"
            /\ UNCHANGED <<test_results, result>>
    /\ UNCHANGED nonResolverVars
    /\ UNCHANGED <<entry, binary_files, provided_libs, task_path, binary_exists,
                   libc_version, attempted, fix_commands, fs, written>>

\* GLIBC mismatch detection: the system libc is run to print its version;
\* <<>> stands for a run that fails, raises or prints no version.
DetectGlibcMismatch ==
    /\ pc = "glibc"
    /\ \E system_glibc_version \in GlibcVersions :
         IF /\ "libc" \in DOMAIN provided_libs
            /\ libc_version # <<>>
            /\ system_glibc_version # <<>>
            /\ libc_version # system_glibc_version
         THEN test_results' =
                [AddIssue(test_results, "GLIBC version mismatch")
                   EXCEPT !.recommended_base_image =
                            select_compatible_base_image(provided_libs, task_path, libc_version)]
         ELSE UNCHANGED test_results
    /\ pc' = "tier1"
    /\ UNCHANGED nonResolverVars
    /\ UNCHANGED <<entry, binary_files, provided_libs, task_path, binary_exists,
                   libc_version, attempted, result, fix_commands, fs, written>>

Tier1 ==
    /\ pc = "tier1"
    /\ \E copy \in CopyOutcomes, run \in RunOutcomes :
         /\ test_results' = Tier1Test(test_results, copy, run)
         /\ \E effect \in {Tier1Files(fs, binary_files[1], copy)} :
              fs' = effect.fs /\ written' = written \cup effect.written
    /\ attempted' = Append(attempted, "system_libs")
    /\ pc' = "tier2"
    /\ UNCHANGED nonResolverVars
    /\ UNCHANGED <<entry, binary_files, provided_libs, task_path, binary_exists,
                   libc_version, result, fix_commands>>

Tier2 ==
    /\ pc = "tier2"
    /\ IF Tier2Guard(provided_libs, test_results)
       THEN /\ \E copy \in CopyOutcomes, rpath \in PatchelfOutcomes, run \in RunOutcomes :
                 /\ test_results' = Tier2Test(test_results, copy, rpath, run)
                 /\ \E effect \in {Tier2Files(fs, binary_files[1], provided_libs,
                                                copy, rpath)} :
                      fs' = effect.fs /\ written' = written \cup effect.written
            /\ attempted' = Append(attempted, "custom_libc_only")
       ELSE UNCHANGED <<test_results, attempted, fs, written>>
    /\ pc' = "tier3"
    /\ UNCHANGED nonResolverVars
    /\ UNCHANGED <<entry, binary_files, provided_libs, task_path, binary_exists,
                   libc_version, result, fix_commands>>

Tier3 ==
    /\ pc = "tier3"
    /\ IF Tier3Guard(provided_libs, test_results)
       THEN /\ \E copy \in CopyOutcomes, interp \in PatchelfOutcomes,
                  rpath \in PatchelfOutcomes, run \in RunOutcomes :
                 /\ test_results' = Tier3Test(test_results, copy, interp, rpath, run)
                 /\ \E effect \in {Tier3Files(fs, binary_files[1], provided_libs,
                                                copy, interp, rpath)} :
                      fs' = effect.fs /\ written' = written \cup effect.written
            /\ attempted' = Append(attempted, "custom_dynamic_linker")
       ELSE UNCHANGED <<test_results, attempted, fs, written>>
    /\ pc' = "determine"
    /\ UNCHANGED nonResolverVars
    /\ UNCHANGED <<entry, binary_files, provided_libs, task_path, binary_exists,
                   libc_version, result, fix_commands>>

Determine ==
    /\ pc = "determine"
    /\ test_results' = DetermineConfig(test_results, provided_libs, binary_files[1])
    /\ result' = test_results'
    /\ pc' = "returned"
    /\ UNCHANGED nonResolverVars
    /\ UNCHANGED <<entry, binary_files, provided_libs, task_path, binary_exists,
                   libc_version, attempted, fix_commands, fs, written>>

\* generate_library_fix_commands after the resolver returned.
FixAfterTest ==
    /\ pc = "returned"
    /\ entry = "generate_library_fix_commands"
    /\ fix_commands' = FixCommandsAfterTest(result, provided_libs, binary_files)
    /\ pc' = "fix_done"
    /\ UNCHANGED nonResolverVars
    /\ UNCHANGED <<entry, binary_files, provided_libs, task_path, binary_exists,
                   libc_version, test_results, attempted, result, fs, written>>

ResolverIdle ==
    /\ entry = "none"
    /\ binary_files = <<>>
    /\ provided_libs = <<>>
    /\ task_path = ""
    /\ binary_exists = FALSE
    /\ libc_version = <<>>
    /\ pc = "idle"
    /\ test_results = InitialTestResults
    /\ attempted = <<>>
    /\ result = NoResult
    /\ fix_commands = <<>>
    /\ fs = <<>>
    /\ written = {}

ArchIdle ==
    /\ task_files = <<>>
    /\ disk = <<>>
    /\ file_idx = 0
    /\ files_32bit = <<>>
    /\ files_64bit = <<>>
    /\ arch_pc = "idle"
    /\ arch_result = <<"", <<>>>>

None == "None"

NoRetryResult == [content |-> <<>>, flag |-> None, success |-> FALSE, returned |-> FALSE]

RetryIdle ==
    /\ task_data = [task_name |-> "none"]
    /\ max_retries = 0
    /\ dockerfile_retry_count = 0
    /\ dockerfile_generated = FALSE
    /\ dockerfile_content = <<>>
    /\ parsed_flag = None
    /\ is_valid = FALSE
    /\ validation_issues = <<>>
    /\ library_fix_commands = <<>>
    /\ attempt = 0
    /\ messages = [feedback |-> <<>>]
    /\ retry_pc = "idle"
    /\ retry_result = NoRetryResult
    /\ task_status = "idle"
    /\ file_issue_failures = 0
    /\ oracle_requests = 0

NoReport == [is_valid |-> FALSE, issues |-> <<>>, non_existing_files |-> <<>>]

ValidateIdle ==
    /\ artifact = <<>>
    /\ file_list = <<>>
    /\ report = NoReport
    /\ validate_pc = "idle"

PoolIdle ==
    /\ tasks = <<>>
    /\ workers = 0
    /\ futures = <<>>
    /\ future_result = <<>>
    /\ yielded = {}
    /\ seq_idx = 0
    /\ successful = 0
    /\ failed = 0
    /\ pool_pc = "idle"

SelectIdle ==
    /\ select_libs = <<>>
    /\ select_path = ""
    /\ detected_version = "None"
    /\ select_pc = "idle"
    /\ selected_image = ""

InventoryIdle ==
    /\ inventory_files = <<>>
    /\ inventory_idx = 0
    /\ inventory = <<>>
    /\ inventory_pc = "idle"

ToolsIdle == PoolIdle /\ SelectIdle /\ InventoryIdle

Init == ResolverInit /\ ArchIdle /\ RetryIdle /\ ValidateIdle /\ ToolsIdle

Next ==
    \/ FixEntry
    \/ CheckInputs
    \/ DetectGlibcMismatch
    \/ Tier1
    \/ Tier2
    \/ Tier3
    \/ Determine
    \/ FixAfterTest

Spec == Init /\ [][Next]_vars

Returned == pc \in {"returned", "fix_done"} /\ result # NoResult

(***************************************************************************)
(* Properties of the resolver.                                             *)
(***************************************************************************)
Tiers == <<"system_libs", "custom_libc_only", "custom_dynamic_linker">>

Succeeded(tier) == test_results[tier]

WasAttempted(tier) == \E i \in DOMAIN attempted : attempted[i] = tier

\* C1: tier 3 (custom_dynamic_linker) is attempted only if tiers 1 and 2 were
\* both attempted and both failed and the inventory holds a libc and a dynamic
\* linker; after the first tier that succeeds no later tier is attempted.
C1_Tier3OnlyAfterTwoFailures ==
    /\ WasAttempted("custom_dynamic_linker") =>
         /\ WasAttempted("system_libs") /\ ~Succeeded("system_libs")
         /\ WasAttempted("custom_libc_only") /\ ~Succeeded("custom_libc_only")
         /\ {"libc", "dynamic_linker"} \subseteq DOMAIN provided_libs
    /\ \A i, j \in DOMAIN attempted : i < j => ~Succeeded(attempted[i])

\* C2: tier 2 (custom_libc_only) is attempted only if tier 1 was attempted
\* before it and failed and the inventory holds a libc.
C2_Tier2OnlyAfterTier1Failure ==
    \A i \in DOMAIN attempted :
        attempted[i] = "custom_libc_only" =>
            /\ i = 2
            /\ attempted[1] = "system_libs"
            /\ ~Succeeded("system_libs")
            /\ "libc" \in DOMAIN provided_libs

C2_Witness ==
    /\ pc = "tier3"
    /\ attempted = <<"system_libs", "custom_libc_only">>
    /\ Succeeded("custom_libc_only")

\* C8: the returned working_config is the weakest tier that succeeded:
\* system_libs if tier 1 succeeded, else custom_libc_only if tier 2 succeeded,
\* else custom_dynamic_linker if tier 3 succeeded, else unknown.
C8_WeakestWorkingConfig ==
    Returned =>
        result.working_config =
            IF Succeeded("system_libs") THEN "system_libs"
            ELSE IF Succeeded("custom_libc_only") THEN "custom_libc_only"
            ELSE IF Succeeded("custom_dynamic_linker") THEN "custom_dynamic_linker"
            ELSE "unknown"

\* C9: in every returned result the commands list is non-empty if and only
\* if working_config is neither system_libs nor unknown.
C9_CommandsIffPatchedConfig ==
    Returned =>
        (result.commands # <<>> <=> result.working_config \notin {"system_libs", "unknown"})

\* C10 (as stated): generate_library_fix_commands returns the empty list if
\* and only if the resolved working_config is system_libs.
C10_EmptyIffSystemLibs ==
    (pc = "fix_done" /\ result # NoResult) =>
        (fix_commands = <<>> <=> result.working_config = "system_libs")

\* C10 (amended): after the resolver ran, generate_library_fix_commands
\* returns the empty list if and only if working_config is system_libs, or it
\* is unknown and the inventory holds neither a libc nor a dynamic linker; for
\* custom_libc_only and custom_dynamic_linker it returns the tested commands.
C10_EmptyIffSystemLibsOrNothingToPatch ==
    (pc = "fix_done" /\ result # NoResult) =>
        /\ fix_commands = <<>> <=>
             \/ result.working_config = "system_libs"
             \/ /\ result.working_config = "unknown"
                /\ DOMAIN provided_libs \cap {"libc", "dynamic_linker"} = {}
        /\ result.working_config \in {"custom_libc_only", "custom_dynamic_linker"} =>
             fix_commands = result.commands /\ Len(fix_commands) >= 2

C10_Witness ==
    /\ pc = "fix_done"
    /\ result.working_config = "unknown"
    /\ attempted = <<"system_libs">>
    /\ fix_commands = <<>>

\* C11: when working_config is custom_dynamic_linker the command list has
\* exactly two entries, the interpreter rewrite before the rpath rewrite; when
\* it is custom_libc_only the list has exactly one entry, the rpath rewrite.
C11_CommandsPerConfig ==
    Returned =>
        /\ result.working_config = "custom_dynamic_linker" =>
             /\ Len(result.commands) = 2
             /\ result.commands[1].op = "patchelf --set-interpreter"
             /\ result.commands[2].op = "patchelf --set-rpath"
        /\ result.working_config = "custom_libc_only" =>
             /\ Len(result.commands) = 1
             /\ result.commands[1].op = "patchelf --set-rpath"

\* A tool other than the test binary failed in the tier: a copy raised, or
\* patchelf returned non-zero, raised or timed out.
ToolFailure(copy, patchelf) == copy = "raise" \/ \E k \in DOMAIN patchelf : patchelf[k] # "ok"

\* tr is test_results after a tier that is marked failed and left an issue.
FailedWithIssue(tr, tier) ==
    /\ ~tr[tier]
    /\ Len(tr.detected_issues) = Len(test_results.detected_issues) + 1

\* C12: in every tier a tool-invocation failure (copy failure, patchelf
\* returning non-zero, raising or timing out) leaves the tier marked failed
\* and appends an issue to detected_issues, and the resolver goes on to the
\* next tier or to the determination.
C12_ToolFailureFailsTier ==
    /\ pc = "tier1" =>
         \A run \in RunOutcomes :
             FailedWithIssue(Tier1Test(test_results, "raise", run), "system_libs")
    /\ (pc = "tier2" /\ Tier2Guard(provided_libs, test_results)) =>
         \A copy \in CopyOutcomes, rpath \in PatchelfOutcomes, run \in RunOutcomes :
             ToolFailure(copy, <<rpath>>) =>
                 FailedWithIssue(Tier2Test(test_results, copy, rpath, run), "custom_libc_only")
    /\ (pc = "tier3" /\ Tier3Guard(provided_libs, test_results)) =>
         \A copy \in CopyOutcomes, interp \in PatchelfOutcomes,
            rpath \in PatchelfOutcomes, run \in RunOutcomes :
             ToolFailure(copy, <<interp, rpath>>) =>
                 FailedWithIssue(Tier3Test(test_results, copy, interp, rpath, run),
                                 "custom_dynamic_linker")
    /\ pc \in {"tier1", "tier2", "tier3", "determine"} =>
         ENABLED (Tier1 \/ Tier2 \/ Tier3 \/ Determine)

\* Spec with the resolver scheduled: every step of the straight-line code is
\* eventually taken (each tool call is bounded by its timeout).
SpecLive == Spec /\ WF_vars(Next)

\* A call of test_binary_library_configurations ends by returning a result.
ResolverReturns == (pc = "check_inputs") ~> (result # NoResult)

\* C13: test_binary_library_configurations always terminates and returns a
\* result for every combination of tier outcomes (success, crash, timeout,
\* tool failure, missing test binary); no failure of a tool propagates as an
\* exception; when no tier succeeded the result is unknown.
C13_AlwaysReturnsAtWorstUnknown ==
    /\ ResolverReturns
    /\ [](result # NoResult =>
            ((\A k \in DOMAIN Tiers : ~Succeeded(Tiers[k])) =>
                result.working_config = "unknown"))

\* C14: every result returned by test_binary_library_configurations has
\* working_config in {system_libs, custom_libc_only, custom_dynamic_linker,
\* unknown}, for every input including an empty binary list and a missing
\* test binary.
C14_WorkingConfigDomain ==
    result # NoResult =>
        result.working_config \in
            {"system_libs", "custom_libc_only", "custom_dynamic_linker", "unknown"}

\* The run of the test binary raises TimeoutExpired.
RunTimesOut == [kind |-> "timeout", code |-> 0, stderr |-> {}]

\* With test_results = tr no later tier is entered.
NoLaterTier(tr) == ~Tier2Guard(provided_libs, tr) /\ ~Tier3Guard(provided_libs, tr)

\* C15: in every tier a timeout of the run of the test binary is treated as
\* success of that tier, and halts further tier testing.
C15_TimeoutIsSuccessAndHalts ==
    /\ pc = "tier1" =>
         LET tr == Tier1Test(test_results, "ok", RunTimesOut)
         IN  tr.system_libs /\ NoLaterTier(tr)
    /\ (pc = "tier2" /\ Tier2Guard(provided_libs, test_results)) =>
         LET tr == Tier2Test(test_results, "ok", "ok", RunTimesOut)
         IN  tr.custom_libc_only /\ ~Tier3Guard(provided_libs, tr)
    /\ (pc = "tier3" /\ Tier3Guard(provided_libs, test_results)) =>
         Tier3Test(test_results, "ok", "ok", "ok", RunTimesOut).custom_dynamic_linker

\* C16: no tier modifies the original task files: every copy and every
\* patchelf rewrite targets only files inside the temporary directory of the
\* tier, and that directory no longer exists when the tier has finished, on
\* success, failure or exception.
C16_TiersLeaveTaskFilesAlone ==
    /\ fs = TaskFiles(binary_files, provided_libs, binary_exists)
    /\ \A p \in written : \E k \in DOMAIN Tiers : p[1] = TempDir(Tiers[k])

C16_Witness ==
    /\ pc = "determine"
    /\ {p[1] : p \in written} = {TempDir(Tiers[k]) : k \in DOMAIN Tiers}
    /\ fs = TaskFiles(binary_files, provided_libs, binary_exists)

\* C17: when no tier succeeds, the unknown result carries as
\* recommended_base_image the image select_compatible_base_image returns for
\* the provided libraries.
C17_UnknownCarriesSelectedImage ==
    (result # NoResult /\ result.working_config = "unknown") =>
        result.recommended_base_image =
            select_compatible_base_image(provided_libs, task_path, libc_version)

(***************************************************************************)
(* SpecArch: the file classifier and the architecture aggregator           *)
(* (forge/analysis.py).                                                    *)
(*                                                                         *)
(* What is at a path: nothing ("missing"), a directory ("dir"), a regular  *)
(* file that cannot be opened ("unreadable") or a regular file ("file")    *)
(* with its leading bytes and, for text, the features the text analysis    *)
(* looks at.                                                               *)
(***************************************************************************)
ELFMagic == <<127, 69, 76, 70>>

StartsWith(bytes, prefix) ==
    Len(bytes) >= Len(prefix) /\ SubSeq(bytes, 1, Len(prefix)) = prefix

NoText == [shebang |-> "", keywords |-> "", ext |-> ""]

OnDisk(ftype, bytes, text) == [ftype |-> ftype, bytes |-> bytes, text |-> text]

FileSamples ==
    { OnDisk("file", ELFMagic \o <<1, 1, 1>>, NoText),          \* ELF, EI_CLASS = 1
      OnDisk("file", ELFMagic \o <<2, 1, 1>>, NoText),          \* ELF, EI_CLASS = 2
      OnDisk("file", ELFMagic \o <<0, 1, 1>>, NoText),          \* ELF, ELFCLASSNONE
      OnDisk("file", ELFMagic \o <<3, 1, 1>>, NoText),          \* ELF, invalid class
      OnDisk("file", ELFMagic, NoText),                         \* ELF magic, truncated
      OnDisk("file", ELFMagic \o <<2, 35, 33>>,                  \* ELF that reads as a script
             [shebang |-> "python", keywords |-> "python", ext |-> ".py"]),
      OnDisk("file", <<77, 90, 144, 0>>, NoText),               \* PE
      OnDisk("file", <<1, 0, 2, 0>>, NoText),                   \* data with NUL bytes
      OnDisk("file", <<35, 33, 47, 98, 105, 110>>,              \* "#!/bin"
             [shebang |-> "python", keywords |-> "", ext |-> ".py"]),
      OnDisk("file", <<104, 105, 10>>,                          \* "hi\n"
             [shebang |-> "", keywords |-> "", ext |-> ".txt"]),
      OnDisk("unreadable", <<>>, NoText),
      OnDisk("dir", <<>>, NoText),
      OnDisk("missing", <<>>, NoText) }

FileNames == <<"f1", "f2", "f3", "f4", "f5">>

NumPrintable(bytes) ==
    Cardinality({i \in DOMAIN bytes :
                   (32 <= bytes[i] /\ bytes[i] <= 126) \/ bytes[i] \in {9, 10, 13}})

\* The text stage: shebang first, then keyword patterns, then the extension,
\* then 'shell'.
TextAnalysis(text) ==
    IF text.shebang \in {"python", "node", "php", "ruby", "perl", "lua"} THEN text.shebang
    ELSE IF text.shebang \in {"bash", "sh", "zsh", "dash"} THEN "shell"
    ELSE IF text.keywords # "" THEN text.keywords
    ELSE IF text.ext = ".py" THEN "python"
    ELSE IF text.ext \in {".js", ".mjs"} THEN "node"
    ELSE IF text.ext = ".php" THEN "php"
    ELSE IF text.ext \in {".sh", ".bash"} THEN "shell"
    ELSE IF text.ext = ".rb" THEN "ruby"
    ELSE IF text.ext = ".pl" THEN "perl"
    ELSE IF text.ext = ".lua" THEN "lua"
    ELSE "shell"

\* The classifier with the text stage before the signatures.
analyze_executable_content_TextFirst(f) ==
    IF f.ftype \in {"missing", "dir", "unreadable"} THEN "binary"
    ELSE IF f.text # NoText THEN TextAnalysis(f.text)
    ELSE "binary"

analyze_executable_content(f) ==
    IF f.ftype \in {"missing", "dir"} THEN "binary"
    ELSE IF f.ftype = "unreadable" THEN "binary"
    ELSE IF StartsWith(f.bytes, ELFMagic) THEN "binary"
    ELSE IF StartsWith(f.bytes, <<77, 90>>) THEN "binary"
    ELSE IF StartsWith(f.bytes, <<202, 254, 186, 190>>) THEN "binary"
    ELSE IF StartsWith(f.bytes, <<137, 80, 78, 71>>) THEN "binary"
    ELSE IF StartsWith(f.bytes, <<255, 216, 255>>) THEN "binary"
    ELSE IF StartsWith(f.bytes, <<80, 75>>) THEN "binary"
    ELSE IF \E i \in DOMAIN f.bytes : f.bytes[i] = 0 THEN "binary"
    ELSE IF Len(f.bytes) > 0 /\ 10 * NumPrintable(f.bytes) < 7 * Len(f.bytes) THEN "binary"
    ELSE IF \E i \in DOMAIN f.bytes : f.bytes[i] >= 128 THEN "binary"
    ELSE TextAnalysis(f.text)

\* The detector without its except clause: header[4] of a header of four
\* bytes raises.
detect_elf_architecture_Unguarded(f) ==
    IF f.ftype \in {"missing", "dir"} THEN "unknown"
    ELSE IF f.ftype = "unreadable" THEN "raise"
    ELSE IF ~StartsWith(f.bytes, ELFMagic) THEN "unknown"
    ELSE IF Len(f.bytes) < 5 THEN "raise"
    ELSE IF f.bytes[5] = 1 THEN "32"
    ELSE IF f.bytes[5] = 2 THEN "64"
    ELSE "unknown"

detect_elf_architecture(f) ==
    IF f.ftype \in {"missing", "dir"} THEN "unknown"
    ELSE IF f.ftype = "unreadable" THEN "unknown"
    ELSE IF ~StartsWith(f.bytes, ELFMagic) THEN "unknown"
    ELSE IF Len(f.bytes) < 5 THEN "unknown"
    ELSE IF f.bytes[5] = 1 THEN "32"
    ELSE IF f.bytes[5] = 2 THEN "64"
    ELSE "unknown"

\* The priority rule applied to the two lists after the loop.
\* A rule that prefers the 64-bit group.
ArchPriority_Prefers64(l32, l64) ==
    IF l64 # <<>> THEN <<"64", l64>>
    ELSE IF l32 # <<>> THEN <<"32", l32>>
    ELSE <<"64", <<>>>>

ArchPriority(l32, l64) ==
    IF l32 # <<>> THEN <<"32", l32>>
    ELSE IF l64 # <<>> THEN <<"64", l64>>
    ELSE <<"64", <<>>>>

ArchInit ==
    /\ \E n \in 0..MaxFiles :
         /\ task_files = SubSeq(FileNames, 1, n)
         /\ disk \in [{FileNames[i] : i \in 1..n} -> FileSamples]
    /\ file_idx = 1
    /\ files_32bit = <<>>
    /\ files_64bit = <<>>
    /\ arch_pc = "loop"
    /\ arch_result = <<"", <<>>>>

\* One iteration of the loop over task_files.
ClassifyFile ==
    /\ arch_pc = "loop"
    /\ file_idx <= Len(task_files)
    /\ LET file_path == task_files[file_idx]
           full_path == disk[file_path]
           arch == IF analyze_executable_content(full_path) = "binary"
                   THEN detect_elf_architecture(full_path)
                   ELSE "not binary"
       IN  /\ files_32bit' = IF arch = "32" THEN Append(files_32bit, file_path) ELSE files_32bit
           /\ files_64bit' = IF arch = "64" THEN Append(files_64bit, file_path) ELSE files_64bit
    /\ file_idx' = file_idx + 1
    /\ UNCHANGED <<task_files, disk, arch_pc, arch_result>>
    /\ UNCHANGED nonArchVars

ArchReturn ==
    /\ arch_pc = "loop"
    /\ file_idx > Len(task_files)
    /\ arch_result' = ArchPriority(files_32bit, files_64bit)
    /\ arch_pc' = "returned"
    /\ UNCHANGED <<task_files, disk, file_idx, files_32bit, files_64bit>>
    /\ UNCHANGED nonArchVars

InitArch == ResolverIdle /\ ArchInit /\ RetryIdle /\ ValidateIdle /\ ToolsIdle

NextArch ==
    \/ ClassifyFile
    \/ ArchReturn

SpecArch == InitArch /\ [][NextArch]_vars

\* What the claim calls a 32-bit (64-bit) ELF file: a readable regular file
\* whose first four bytes are the ELF magic and whose EI_CLASS byte is 1 (2).
IsELFOfClass(name, class) ==
    /\ disk[name].ftype = "file"
    /\ Len(disk[name].bytes) >= 5
    /\ \A i \in 1..4 : disk[name].bytes[i] = ELFMagic[i]
    /\ disk[name].bytes[5] = class

ELFFilesOfClass(class) == SelectSeq(task_files, LAMBDA name : IsELFOfClass(name, class))

Char(s, i) == SubSeq(s, i, i)

Min(S) == CHOOSE i \in S : \A j \in S : i <= j

Max(S) == 0 - Min({0 - i : i \in S})

\* s.endswith(suffix)
EndsWith(s, suffix) ==
    Len(s) >= Len(suffix) /\ SubSeq(s, Len(s) - Len(suffix) + 1, Len(s)) = suffix

\* sub in s
Contains(s, sub) ==
    \E i \in 0..(Len(s) - Len(sub)) : SubSeq(s, i + 1, i + Len(sub)) = sub

\* s.lstrip(chars)
RECURSIVE LStripChars(_, _)
LStripChars(s, chars) ==
    IF s # "" /\ Head(s) \in chars THEN LStripChars(Tail(s), chars) ELSE s

\* s.rstrip(chars)
RECURSIVE RStripChars(_, _)
RStripChars(s, chars) ==
    IF s # "" /\ Char(s, Len(s)) \in chars
    THEN RStripChars(SubSeq(s, 1, Len(s) - 1), chars)
    ELSE s

\* s.strip(chars)
StripChars(s, chars) == RStripChars(LStripChars(s, chars), chars)

Whitespace == {" ", "\t"}

\* The sequence f, with its elements computed.
List(f) == f \o <<>>

\* s.strip()
Strip(s) == StripChars(s, Whitespace)

\* s.split(): the first word of s, then the words of what follows it
RECURSIVE Split(_)
Split(s) ==
    LET rest == LStripChars(s, Whitespace)
        stop == Min({i \in 1..(Len(rest) + 1) :
                        i = Len(rest) + 1 \/ SubSeq(rest, i, i) \in Whitespace})
    IN  IF rest = "" THEN <<>>
        ELSE <<SubSeq(rest, 1, stop - 1)>> \o Split(SubSeq(rest, stop, Len(rest)))

\* s.split(c)[-1]
AfterLast(s, c) ==
    LET at == {i \in 1..Len(s) : Char(s, i) = c}
    IN  IF at = {} THEN s ELSE SubSeq(s, Max(at) + 1, Len(s))

LowerLetters == <<"a", "b", "c", "d", "e", "f", "g", "h", "i", "j", "k", "l", "m",
                  "n", "o", "p", "q", "r", "s", "t", "u", "v", "w", "x", "y", "z">>

UpperLetters == <<"A", "B", "C", "D", "E", "F", "G", "H", "I", "J", "K", "L", "M",
                  "N", "O", "P", "Q", "R", "S", "T", "U", "V", "W", "X", "Y", "Z">>

MapChar(c, from, to) ==
    IF \E i \in DOMAIN from : from[i] = c
    THEN to[CHOOSE i \in DOMAIN from : from[i] = c]
    ELSE c

\* s.upper() and s.lower()
RECURSIVE Upper(_)
Upper(s) ==
    IF s = "" THEN "" ELSE MapChar(Head(s), LowerLetters, UpperLetters) \o Upper(Tail(s))

RECURSIVE Lower(_)
Lower(s) ==
    IF s = "" THEN "" ELSE MapChar(Head(s), UpperLetters, LowerLetters) \o Lower(Tail(s))

\* sub in s.lower(), sub in lower case
InLower(s, sub) ==
    LET first == {Head(sub), Upper(Head(sub))}
    IN  \/ Contains(s, sub)
        \/ \E i \in 1..(Len(s) - Len(sub) + 1) :
              /\ SubSeq(s, i, i) \in first
              /\ Lower(SubSeq(s, i, i + Len(sub) - 1)) = sub

\* s.upper().startswith(prefix), prefix in capitals
UpperStartsWith(s, prefix) ==
    Len(s) >= Len(prefix) /\ Upper(SubSeq(s, 1, Len(prefix))) = prefix

\* fnmatch.fnmatch(name, pat) for patterns of literals, '*' and '?'
RECURSIVE fnmatch(_, _)
fnmatch(name, pat) ==
    IF pat = "" THEN name = ""
    ELSE IF Head(pat) = "*"
         THEN fnmatch(name, Tail(pat)) \/ (name # "" /\ fnmatch(Tail(name), pat))
    ELSE IF name = "" THEN FALSE
    ELSE (Head(pat) = "?" \/ Head(pat) = Head(name)) /\ fnmatch(Tail(name), Tail(pat))

\* s.replace(old, new)
RECURSIVE Replace(_, _, _)
Replace(s, old, new) ==
    IF old = "" THEN (IF s = "" THEN new ELSE new \o Head(s) \o Replace(Tail(s), old, new))
    ELSE IF Len(s) < Len(old) THEN s
    ELSE IF SubSeq(s, 1, Len(old)) = old
         THEN new \o Replace(SubSeq(s, Len(old) + 1, Len(s)), old, new)
    ELSE Head(s) \o Replace(Tail(s), old, new)

InList(x, list) == \E i \in DOMAIN list : list[i] = x

\* '\n'.join(lines)
RECURSIVE JoinLines(_)
JoinLines(lines) ==
    IF lines = <<>> THEN ""
    ELSE IF Len(lines) = 1 THEN lines[1]
    ELSE lines[1] \o "\n" \o JoinLines(Tail(lines))

\* content.strip().split('\n'): the lines of a Dockerfile without the blank
\* lines and the white space at its two ends; <<"">> for a blank Dockerfile
StripContent(lines) ==
    LET Between(first, last) ==
            IF first = last THEN <<Strip(lines[first])>>
            ELSE <<LStripChars(lines[first], Whitespace)>>
                 \o SubSeq(lines, first + 1, last - 1)
                 \o <<RStripChars(lines[last], Whitespace)>>
        Kept(keep) == IF keep = {} THEN <<"">> ELSE Between(Min(keep), Max(keep))
    IN  Kept({i \in DOMAIN lines : Strip(lines[i]) # ""})

\* content.strip() is non-empty
NonBlankContent(lines) == \E i \in DOMAIN lines : Strip(lines[i]) # ""

(***************************************************************************)
(* forge/validators.py                                                     *)
(***************************************************************************)
docker_commands ==
    <<"FROM", "RUN", "COPY", "ADD", "WORKDIR", "ENV", "EXPOSE", "CMD", "ENTRYPOINT",
      "USER", "VOLUME", "LABEL", "ARG", "ONBUILD", "STOPSIGNAL", "HEALTHCHECK", "SHELL">>

\* any(next_line.upper().startswith(cmd) for cmd in docker_commands)
StartsDockerCommand(line) ==
    \E k \in DOMAIN docker_commands : UpperStartsWith(line, docker_commands[k])

\* The index of the next non-blank line after line i, 0 if there is none.
NextNonBlank(lines, i) ==
    LET later == {j \in DOMAIN lines : j > i /\ Strip(lines[j]) # ""}
    IN  IF later = {} THEN 0 ELSE Min(later)

\* Line i ends in a backslash and the next non-blank line starts a command.
BackslashBeforeCommand(lines, i) ==
    /\ EndsWith(Strip(lines[i]), "\\")
    /\ NextNonBlank(lines, i) # 0
    /\ StartsDockerCommand(Strip(lines[NextNonBlank(lines, i)]))

fix_dockerfile_trailing_backslashes(lines) ==
    List([i \in DOMAIN lines |->
            IF BackslashBeforeCommand(lines, i)
            THEN RStripChars(RStripChars(RStripChars(lines[i], Whitespace), {"\\"}), Whitespace)
            ELSE lines[i]])

_expand_dockerfile_source_pattern(source_pattern, files) ==
    IF source_pattern \in {".", "./"} THEN files
    ELSE IF EndsWith(source_pattern, "/")
    THEN LET dir_prefix == RStripChars(source_pattern, {"/"})
         IN  IF dir_prefix = "" THEN files
             ELSE SelectSeq(files, LAMBDA f : StartsWith(f, dir_prefix \o "/") \/ f = dir_prefix)
    ELSE IF Contains(source_pattern, "*") \/ Contains(source_pattern, "?")
    THEN SelectSeq(files, LAMBDA f : \/ fnmatch(f, source_pattern)
                                     \/ fnmatch(AfterLast(f, "/"), source_pattern))
    ELSE IF InList(source_pattern, files) THEN <<source_pattern>>
    ELSE LET directory_files == SelectSeq(files, LAMBDA f : StartsWith(f, source_pattern \o "/"))
         IN  IF directory_files # <<>> THEN directory_files
             ELSE SelectSeq(files, LAMBDA f : \/ EndsWith(f, "/" \o source_pattern)
                                              \/ f = source_pattern)

\* The while loop over parts: the words that are neither a flag nor, after a
\* flag without '=', the word that follows it.
RECURSIVE source_parts(_, _)
source_parts(parts, i) ==
    IF i > Len(parts) THEN <<>>
    ELSE IF StartsWith(parts[i], "--")
         THEN IF Contains(parts[i], "=") THEN source_parts(parts, i + 1)
              ELSE source_parts(parts, i + 2)
    ELSE <<parts[i]>> \o source_parts(parts, i + 1)

\* The body of the loop over copy_lines: the source of the line if it matches
\* no available file, as a list of at most one element.
UnmatchedSource(line, files) ==
    LET parts == Split(line)
    IN  IF Len(parts) >= 3 /\ ~Contains(line, "--from=") /\ source_parts(parts, 2) # <<>>
        THEN LET source == StripChars(source_parts(parts, 2)[1], {"'", "\""})
             IN  IF /\ _expand_dockerfile_source_pattern(source, files) = <<>>
                    /\ source \notin {".", "..", "./"}
                 THEN <<source>>
                 ELSE <<>>
        ELSE <<>>

IsCopyLine(line) == UpperStartsWith(line, "COPY") \/ UpperStartsWith(line, "ADD")

\* Concatenation of F(list[1]), F(list[2]), ...
RECURSIVE Flatten(_)
Flatten(lists) ==
    IF lists = <<>> THEN <<>> ELSE Head(lists) \o Flatten(Tail(lists))

check_dockerfile_file_existence(dockerfile, files) ==
    LET lines      == StripContent(dockerfile)
        copy_lines == SelectSeq([i \in DOMAIN lines |-> Strip(lines[i])], IsCopyLine)
    IN  Flatten([k \in DOMAIN copy_lines |-> UnmatchedSource(copy_lines[k], files)])

MissingFileIssue(source) ==
    "File pattern '" \o source \o "' does not match any available files"

\* The set of lower-cased extensions of the available files.
available_extensions(files) ==
    {Lower(AfterLast(files[i], ".")) : i \in {j \in DOMAIN files : Contains(files[j], ".")}}

script_suffixes == <<".py", ".js", ".php", ".html", ".css", ".txt", ".md">>

validate_dockerfile(dockerfile, files) ==
    LET Issues(lines, content_lines, from_lines, copy_lines) ==
      LET
        backslash ==
            Flatten([i \in DOMAIN lines |->
                        IF BackslashBeforeCommand(lines, i)
                        THEN <<"Line " \o ToString(i) \o
                               ": Trailing backslash before new Docker command will cause build failure">>
                        ELSE <<>>])
        has_expose == \E i \in DOMAIN content_lines : UpperStartsWith(content_lines[i], "EXPOSE")
        has_cmd_or_entrypoint ==
            \E i \in DOMAIN content_lines : \/ UpperStartsWith(content_lines[i], "CMD")
                                            \/ UpperStartsWith(content_lines[i], "ENTRYPOINT")
        structure ==
            (IF from_lines = <<>> THEN <<"Missing FROM instruction">> ELSE <<>>)
            \o (IF ~has_expose
                THEN <<"Missing EXPOSE instruction - challenge needs to be accessible over network">>
                ELSE <<>>)
            \o (IF ~has_cmd_or_entrypoint
                THEN <<"Missing CMD or ENTRYPOINT - service won't start automatically">>
                ELSE <<>>)
        base ==
            IF from_lines # <<>>
               /\ LET from_line == Lower(from_lines[1])
                  IN  /\ ~Contains(from_line, "ubuntu:20.04")
                      /\ \A b \in {"ubuntu:", "python:", "node:", "php:", "nginx:", "apache:"} :
                            ~Contains(from_line, b)
            THEN <<"Unusual base image detected: " \o from_lines[1] \o " - prefer ubuntu:20.04">>
            ELSE <<>>
        MissingFileIssues(sources) ==
            List([k \in DOMAIN sources |-> MissingFileIssue(sources[k])])
        copies ==
            Flatten([k \in DOMAIN copy_lines |->
                        MissingFileIssues(UnmatchedSource(copy_lines[k], files))])
        security ==
            Flatten([k \in DOMAIN content_lines |->
                        IF \/ InLower(content_lines[k], "flag.sha256")
                           \/ InLower(content_lines[k], "flagcheck")
                        THEN <<"Security issue: trying to copy flag.sha256 or flagcheck files">>
                        ELSE <<>>])
        InContent(word) == \E i \in DOMAIN dockerfile : InLower(dockerfile[i], word)
        python ==
            IF "py" \in available_extensions(files) /\ ~InContent("python")
            THEN <<"Python files detected but no Python installation found">> ELSE <<>>
        chmod ==
            IF /\ \E i \in DOMAIN files :
                     \A k \in DOMAIN script_suffixes : ~EndsWith(files[i], script_suffixes[k])
               /\ ~InContent("chmod")
            THEN <<"Executable files detected but no chmod permissions set">> ELSE <<>>
        web ==
            IF /\ available_extensions(files) \cap {"html", "php", "css", "js"} # {}
               /\ \A server \in {"apache", "nginx", "httpd"} : ~InContent(server)
            THEN <<"Web files detected but no web server installation found">> ELSE <<>>
      IN  backslash \o structure \o base \o copies \o security \o python \o chmod \o web
        Result(content_lines, issues) ==
            IF content_lines = <<>>
            THEN [is_valid |-> FALSE, issues |-> <<"Empty Dockerfile generated">>]
            ELSE [is_valid |-> issues = <<>>, issues |-> issues]
        Validate(lines, content_lines) ==
            Result(content_lines,
                   Issues(lines, content_lines,
                          SelectSeq(content_lines, LAMBDA l : UpperStartsWith(l, "FROM")),
                          SelectSeq(content_lines, IsCopyLine)))
        Lines(lines) ==
            Validate(lines, SelectSeq([i \in DOMAIN lines |-> Strip(lines[i])],
                                      LAMBDA l : l # "" /\ ~StartsWith(l, "#")))
    IN  Lines(StripContent(dockerfile))

comprehensive_packages ==
    {"socat", "libc6:i386", "libstdc++6:i386", "lib32gcc-s1", "lib32stdc++6",
     "libgcc1:i386", "libpam0g:i386", "libc6-dev-i386", "libncurses5:i386",
     "build-essential", "curl", "wget", "git", "gdb", "strace", "ltrace",
     "python3", "python3-pip", "python3-dev", "binutils", "nasm", "gcc-multilib",
     "g++-multilib", "patchelf", "netcat-openbsd", "vim", "nano", "tmux",
     "valgrind", "binwalk", "unzip", "zip", "p7zip-full", "file", "hexedit"}

problematic_i386_packages ==
    {"coreutils:i386", "bash:i386", "util-linux:i386", "base-files:i386"}

\* The words after an 'install' word that are not options, without their
\* backslashes; empty unless the line holds 'apt-get install'.
install_packages(line) ==
    LET parts == Split(line)
    IN  IF ~Contains(line, "apt-get install") THEN {}
        ELSE {StripChars(parts[k], {"\\"}) :
                k \in {j \in DOMAIN parts : /\ \E h \in 1..(j - 1) : parts[h] = "install"
                                            /\ parts[j] # "install"
                                            /\ ~StartsWith(parts[j], "-")}}

\* The index after the command that starts at line i: the lines that end in
\* a backslash and the one after them.
RECURSIVE AfterCommand(_, _)
AfterCommand(lines, i) ==
    IF i <= Len(lines) /\ EndsWith(Strip(lines[i]), "\\")
    THEN AfterCommand(lines, i + 1)
    ELSE i + 1

\* Whether the while loop drops the command that starts at line i.
DropsCommand(line) ==
    /\ StartsWith(line, "RUN")
    /\ IF Contains(line, "dpkg --add-architecture i386") \/ Contains(line, "coreutils:i386")
       THEN TRUE
       ELSE IF \E pkg \in comprehensive_packages : Contains(line, pkg)
       THEN LET installed == install_packages(line)
            IN  installed # {} /\ installed \subseteq comprehensive_packages
       ELSE \E pkg \in problematic_i386_packages : Contains(line, pkg)

RECURSIVE filtered_lines(_, _)
filtered_lines(lines, i) ==
    IF i > Len(lines) THEN <<>>
    ELSE IF DropsCommand(Strip(lines[i])) THEN filtered_lines(lines, AfterCommand(lines, i))
    ELSE <<lines[i]>> \o filtered_lines(lines, i + 1)

remove_duplicate_docker_setup(dockerfile) ==
    SelectSeq(filtered_lines(dockerfile, 1), LAMBDA line : Strip(line) # "RUN")

(***************************************************************************)
(* forge/generation.py: the path fixer and the flag parser                 *)
(***************************************************************************)
\* The body of the loop over lines of validate_and_fix_dockerfile.
FixCopyPath(line, files) ==
    LET Fix(parts) ==
      LET
        source == StripChars(parts[2], {"'", "\""})
        directory_files ==
            SelectSeq(files, LAMBDA f : \/ StartsWith(f, source \o "/")
                                        \/ StartsWith(f, source \o "\\"))
        matches == SelectSeq(files, LAMBDA f : EndsWith(f, source) \/ Contains(f, source))
        best_match     == matches[1]
        source_has_ext == Contains(AfterLast(source, "/"), ".")
        match_has_ext  == Contains(AfterLast(best_match, "/"), ".")
      IN  IF /\ (StartsWith(Strip(line), "COPY") \/ StartsWith(Strip(line), "ADD"))
             /\ Len(parts) >= 3
             /\ ~InList(source, files) /\ ~StartsWith(source, ".") /\ ~EndsWith(source, "*")
             /\ directory_files = <<>>
             /\ matches # <<>>
             /\ ~(~source_has_ext /\ match_has_ext /\ Contains(best_match, source))
          THEN Replace(line, source, best_match)
          ELSE line
    IN  Fix(Split(line))

\* validate_and_fix_dockerfile: the fixed Dockerfile and its validation
validate_and_fix_dockerfile(dockerfile, files) ==
    LET FixPaths(fixed_dockerfile) ==
            List([i \in DOMAIN fixed_dockerfile |-> FixCopyPath(fixed_dockerfile[i], files)])
        Validated(final_dockerfile) ==
            [content  |-> final_dockerfile,
             is_valid |-> validate_dockerfile(final_dockerfile, files).is_valid]
    IN  Validated(FixPaths(fix_dockerfile_trailing_backslashes(dockerfile)))

FlagPrefix == "pwn.college{"

\* re.findall(r"pwn\.college\{[^}]+\}", text, re.IGNORECASE): the matches
\* that start at or after position i, given the positions where the prefix
\* starts
RECURSIVE FindFlags(_, _, _)
FindFlags(text, starts, i) ==
    LET matching == {k \in starts :
                        /\ k >= i
                        /\ Char(text, k + Len(FlagPrefix)) # "}"
                        /\ \E j \in (k + Len(FlagPrefix))..Len(text) : Char(text, j) = "}"}
    IN  IF matching = {} THEN <<>>
        ELSE LET k     == Min(matching)
                 close == Min({j \in (k + Len(FlagPrefix))..Len(text) : Char(text, j) = "}"})
             IN  <<SubSeq(text, k, close)>> \o FindFlags(text, starts, close + 1)

\* The positions of text where the flag prefix starts, in any case.
PrefixStarts(text) ==
    {k \in 1..(Len(text) - Len(FlagPrefix)) :
        /\ Char(text, k) \in {"p", "P"}
        /\ Lower(SubSeq(text, k, k + Len(FlagPrefix) - 1)) = FlagPrefix}

\* parse_flag_from_dockerfile: the first flag that is not a placeholder.  The
\* three quoted patterns find the flags the first pattern finds.
parse_flag_from_dockerfile(dockerfile) ==
    LET text  == JoinLines(dockerfile)
        flags == SelectSeq(FindFlags(text, PrefixStarts(text), 1),
                           LAMBDA flag : flag # "pwn.college{...}" /\ ~Contains(flag, "..."))
    IN  IF flags = <<>> THEN None ELSE flags[1]

(***************************************************************************)
(* forge/ctf_forge.py: the setup block and the locally built Dockerfiles   *)
(***************************************************************************)
\* int(get_ubuntu_version_from_base_image(base_image).split('.')[0]) for the
\* images select_compatible_base_image returns; 20 when no version is found
major_version(base_image) ==
    LET v == IF StartsWith(Lower(base_image), "ubuntu:") /\ Len(base_image) >= 9
             THEN SubSeq(base_image, 8, 9) ELSE "20"
    IN  CASE v = "14" -> 14 [] v = "16" -> 16 [] v = "17" -> 17 [] v = "18" -> 18
          [] v = "19" -> 19 [] v = "20" -> 20 [] v = "21" -> 21 [] v = "22" -> 22
          [] v = "23" -> 23 [] v = "24" -> 24 [] OTHER -> 20

base_packages == <<"build-essential", "ca-certificates", "curl", "sudo", "wget", "unzip">>

\* get_adaptive_package_lists.  The development and tools lists are cut to
\* their first and last entries; the other lists are whole.
get_adaptive_package_lists(base_image, architecture) ==
    [base        |-> base_packages,
     development |-> <<"autoconf", "python3-dev", "squashfs-tools">>
                     \o (IF architecture = "32" THEN <<"libc6-dev-i386", "libstdc++6:i386">>
                         ELSE <<>>),
     tools       |-> <<"binutils", "sqlite3">>,
     version_specific |->
        IF major_version(base_image) >= 20
        THEN <<"python-is-python3", "ipython3", "python3-ipdb", "python3-magic">>
        ELSE IF major_version(base_image) >= 18
        THEN <<"ipython3", "python3-ipdb", "python3-magic">>
        ELSE <<"ipython", "python3-magic">>,
     python      |-> IF major_version(base_image) >= 20 THEN <<"python-is-python3">> ELSE <<>>,
     java        |-> IF major_version(base_image) >= 20 THEN <<"openjdk-17-jdk">>
                     ELSE IF major_version(base_image) >= 18 THEN <<"openjdk-11-jdk">>
                     ELSE <<"openjdk-8-jdk">>]

\* generate_python_installation_commands, each RUN cut to its first and last line
generate_python_installation_commands(base_image) ==
    IF major_version(base_image) >= 20
    THEN <<"# Install Python packages (modern)",
           "RUN python3 -m pip install --upgrade pip && \\",
           "    (python3 -m pip install 'git+https://github.com/Gallopsled/pwntools#egg=pwntools' || true)",
           "">>
    ELSE IF major_version(base_image) >= 18
    THEN <<"# Install Python packages (compatible)",
           "RUN python3 -m pip install --upgrade 'pip<21.0' && \\",
           "    (python3 -m pip install 'git+https://github.com/Gallopsled/pwntools#egg=pwntools' || true)",
           "">>
    ELSE <<"# Install Python packages (legacy - Python 3.5)",
           "RUN (python3 -m pip install --upgrade 'pip<10.0') || \\",
           "    (python3 -m pip install pycryptodome || apt-get install -y python3-crypto || true)",
           "">>

\* The lines of generate_adaptive_docker_setup(...).  The stdbuf32 wrapper of
\* the 32-bit block is cut to its first and last line.
generate_adaptive_docker_setup(base_image, architecture, has_python_files, has_node_files) ==
    LET Listed(packages) ==
            packages.base \o packages.development \o packages.tools
            \o packages.version_specific
            \o (IF has_python_files THEN packages.python ELSE <<>>)
            \o packages.java
        PackageLines(listed) ==
            List([i \in DOMAIN listed |->
                    "        " \o listed[i] \o (IF i = Len(listed) THEN "" ELSE " \\")])
        package_lines ==
            PackageLines(Listed(get_adaptive_package_lists(base_image, architecture)))
    IN  (IF architecture = "32"
         THEN <<"# Configure i386 architecture for 32-bit support",
                "RUN --mount=type=cache,target=/var/cache/apt,sharing=locked \\",
                "    dpkg --add-architecture i386 && \\",
                "    apt-get update",
                "">>
         ELSE <<>>)
        \o <<"# Comprehensive package installation with error handling",
             "RUN --mount=type=cache,target=/var/cache/apt,sharing=locked \\",
             "    apt-get update && apt-get install --no-install-recommends -yqq \\">>
        \o package_lines
        \o (IF has_python_files
            THEN generate_python_installation_commands(base_image)
                 \o <<"# Create Python symlinks for compatibility",
                      "RUN ln -sf /usr/bin/python3 /usr/bin/python 2>/dev/null || true",
                      "RUN ln -sf /usr/bin/pip3 /usr/bin/pip 2>/dev/null || true",
                      "">>
            ELSE <<>>)
        \o (IF ~has_node_files THEN <<>>
            ELSE IF major_version(base_image) >= 20
            THEN <<"# Install Node.js (from system packages)",
                   "RUN --mount=type=cache,target=/var/cache/apt,sharing=locked \\",
                   "    apt-get update && apt-get install -y nodejs npm && \\",
                   "    apt-get clean && rm -rf /var/lib/apt/lists/*",
                   "">>
            ELSE IF major_version(base_image) >= 18
            THEN <<"# Install Node.js (from NodeSource for Ubuntu 18.04+)",
                   "RUN curl -fsSL https://deb.nodesource.com/setup_16.x | bash - && \\",
                   "    apt-get install -y nodejs && \\",
                   "    apt-get clean && rm -rf /var/lib/apt/lists/*",
                   "">>
            ELSE <<"# Install Node.js (older version for Ubuntu 16.04)",
                   "RUN curl -fsSL https://deb.nodesource.com/setup_14.x | bash - && \\",
                   "    apt-get install -y nodejs && \\",
                   "    apt-get clean && rm -rf /var/lib/apt/lists/* || \\",
                   "    (apt-get update && apt-get install -y nodejs npm || true)",
                   "">>)
        \o (IF architecture = "32"
            THEN <<"# Add additional 32-bit specific packages",
                   "RUN --mount=type=cache,target=/var/cache/apt,sharing=locked \\",
                   "    apt-get update && apt-get install --no-install-recommends -yqq \\",
                   "        lib32gcc-s1 \\",
                   "        lib32stdc++6 \\",
                   "        libgcc1:i386 \\",
                   "        libpam0g:i386 \\",
                   "    && apt-get clean && rm -rf /var/lib/apt/lists/*",
                   "",
                   "# Create a custom stdbuf wrapper for 32-bit binaries",
                   "RUN echo '#!/bin/bash' > /usr/local/bin/stdbuf32 && \\",
                   "    chmod +x /usr/local/bin/stdbuf32",
                   "">>
            ELSE <<>>)

SocatCmd == "CMD [\"socat\", \"TCP-LISTEN:1337,reuseaddr,fork\", \"EXEC:/challenge/run.sh,stderr\"]"

\* The lines of generate_fallback_dockerfile(...); main_executable is the
\* first available file whose content is a binary, "" if there is none.
generate_fallback_dockerfile(files, libs, tested, main_executable) ==
    LET base_image == tested.recommended_base_image
        essential_packages == get_adaptive_package_lists(base_image, "64").base
                              \o <<"socat", "patchelf", "gdb", "strace">>
        installs ==
            Flatten([i \in DOMAIN essential_packages |->
                        (IF i > 1 THEN <<"     || true) && (">> ELSE <<>>)
                        \o <<"apt-get install --no-install-recommends -yqq "
                             \o essential_packages[i]>>])
        copied == SelectSeq(files, LAMBDA f : /\ ~StartsWith(f, ".")
                                              /\ f \notin {"Dockerfile", "docker-compose.yml"})
    IN  <<"FROM " \o base_image,
          "",
          "ENV DEBIAN_FRONTEND=noninteractive",
          "ENV LC_CTYPE=C.UTF-8",
          "",
          "# Minimal package installation with error handling",
          "RUN apt-get update && \\",
          "    (">>
        \o installs
        \o <<"     || true) && \\",
             "    apt-get clean && rm -rf /var/lib/apt/lists/*",
             "",
             "# Create python symlink if needed",
             "RUN ln -sf /usr/bin/python3 /usr/bin/python 2>/dev/null || true",
             "",
             "WORKDIR /challenge",
             "",
             "# Copy all challenge files">>
        \o [i \in DOMAIN copied |-> "COPY " \o copied[i] \o " /challenge/"]
        \o <<"",
             "# Set executable permissions for all files",
             "RUN chmod +x /challenge/* 2>/dev/null || true",
             "">>
        \o (IF main_executable # ""
            THEN <<"# Alternative library handling using LD_LIBRARY_PATH",
                   "ENV LD_LIBRARY_PATH=/challenge",
                   "",
                   "# Create wrapper script with multiple fallback strategies",
                   "RUN echo '#!/bin/bash' > /challenge/run.sh && \\",
                   "    echo 'cd /challenge' >> /challenge/run.sh && \\",
                   "    echo '# Try different execution strategies' >> /challenge/run.sh && \\",
                   "    echo 'if [ -f \"" \o main_executable \o "\" ]; then' >> /challenge/run.sh && \\">>
                 \o (IF "dynamic_linker" \in DOMAIN libs
                     THEN <<"    echo '  # Strategy 1: Use provided dynamic linker directly' >> /challenge/run.sh && \\",
                            "    echo '  if ./" \o libs["dynamic_linker"] \o " --list ./" \o main_executable
                                \o " >/dev/null 2>&1; then' >> /challenge/run.sh && \\",
                            "    echo '    exec ./" \o libs["dynamic_linker"]
                                \o " --library-path /challenge ./" \o main_executable
                                \o "' >> /challenge/run.sh && \\",
                            "    echo '  fi' >> /challenge/run.sh && \\">>
                     ELSE <<>>)
                 \o <<"    echo '  # Strategy 2: Use system dynamic linker with LD_LIBRARY_PATH' >> /challenge/run.sh && \\",
                      "    echo '  LD_LIBRARY_PATH=/challenge exec ./" \o main_executable
                          \o "' >> /challenge/run.sh && \\",
                      "    echo 'else' >> /challenge/run.sh && \\",
                      "    echo '  echo \"Binary not found\"' >> /challenge/run.sh && \\",
                      "    echo '  exit 1' >> /challenge/run.sh && \\",
                      "    echo 'fi' >> /challenge/run.sh && \\",
                      "    chmod +x /challenge/run.sh",
                      "",
                      "EXPOSE 1337",
                      "",
                      SocatCmd>>
            ELSE <<"# Create generic wrapper script",
                   "RUN echo '#!/bin/bash' > /challenge/run.sh && \\",
                   "    echo 'cd /challenge' >> /challenge/run.sh && \\",
                   "    echo 'echo \"Challenge ready\"' >> /challenge/run.sh && \\",
                   "    echo 'cat' >> /challenge/run.sh && \\",
                   "    chmod +x /challenge/run.sh",
                   "",
                   "EXPOSE 1337",
                   "",
                   SocatCmd>>)

\* The minimal Dockerfile of call_model_for_dockerfile_with_fallback.
minimal_dockerfile ==
    <<"FROM ubuntu:20.04",
      "",
      "ENV DEBIAN_FRONTEND=noninteractive",
      "",
      "RUN apt-get update && apt-get install -y \\",
      "    socat \\",
      "    python3 \\",
      "    && apt-get clean && rm -rf /var/lib/apt/lists/*",
      "",
      "WORKDIR /challenge",
      "",
      "COPY . /challenge/",
      "",
      "RUN chmod +x /challenge/* 2>/dev/null || true",
      "",
      "RUN printf '#!/bin/bash\\ncd /challenge\\necho \"Challenge is ready for interaction\"\\ncat\\n' > /challenge/run.sh && chmod +x /challenge/run.sh",
      "",
      "EXPOSE 1337",
      "",
      SocatCmd>>

(***************************************************************************)
(* forge/generation.py: call_model_for_dockerfile                          *)
(***************************************************************************)
\* The text of a fix command as the resolver writes it.
CommandText(cmd) ==
    IF cmd.op = "#" THEN "# " \o cmd.arg
    ELSE IF cmd.op = "patchelf --set-rpath"
    THEN "    patchelf --set-rpath . /challenge/" \o cmd.target
    ELSE "    patchelf --set-interpreter ./" \o cmd.arg \o " /challenge/" \o cmd.target

CommandTexts(cmds) == List([i \in DOMAIN cmds |-> CommandText(cmds[i])])

\* Every dict test_binary_library_configurations can return for a non-empty
\* list of binaries: the flags the tier guards allow, the base image as set
\* on entry or by the GLIBC mismatch detection, then the determination.
TestOutcomes(libs, bins, version) ==
    LET flagged == {[InitialTestResults EXCEPT !.system_libs = s,
                                               !.custom_libc_only = l,
                                               !.custom_dynamic_linker = d,
                                               !.recommended_base_image = img] :
                        s \in BOOLEAN, l \in BOOLEAN, d \in BOOLEAN,
                        img \in {default_base,
                                 select_compatible_base_image(libs, "/task", version)}}
    IN  {DetermineConfig(tr, libs, bins[1]) :
            tr \in {t \in flagged : /\ t.custom_libc_only => Tier2Guard(libs, t)
                                    /\ t.custom_dynamic_linker => Tier3Guard(libs, t)}}

\* The values library_fix_commands can take before the loop: the commands
\* of a first test, or those of generate_library_fix_commands, which tests
\* the binaries again.
LibraryFixChoices(libs, bins, version) ==
    IF Truthy(libs) /\ bins # <<>>
    THEN {CommandTexts(IF first.working_config \in {"system_libs", "unknown"}
                       THEN FixCommandsAfterTest(second, libs, bins)
                       ELSE first.commands) :
             first \in TestOutcomes(libs, bins, version),
             second \in TestOutcomes(libs, bins, version)}
    ELSE {<<>>}

\* The markdown fence of three backquotes; ~ stands for the backquote.
Fence == "~~~"

\* response.strip() without its markdown fence
StripFence(response) ==
    LET content == StripContent(response)
    IN  IF StartsWith(content[1], Fence) /\ Len(content) > 2
        THEN SubSeq(content, 2, Len(content) - 1)
        ELSE content

\* lines with new_lines inserted after line i
InsertAfter(lines, i, new_lines) ==
    SubSeq(lines, 1, i) \o new_lines \o SubSeq(lines, i + 1, Len(lines))

\* The first FROM line is replaced by the selected base image, two ENV lines
\* and the stripped setup block.
ReplaceFrom(lines, base_image, comprehensive_setup) ==
    LET froms == {i \in DOMAIN lines : UpperStartsWith(Strip(lines[i]), "FROM")}
    IN  IF froms = {} THEN lines
        ELSE SubSeq(lines, 1, Min(froms) - 1)
             \o <<"FROM " \o base_image,
                  "ENV DEBIAN_FRONTEND=noninteractive",
                  "ENV LC_CTYPE=C.UTF-8">>
             \o StripContent(comprehensive_setup)
             \o SubSeq(lines, Min(froms) + 1, Len(lines))

\* "RUN " + " && \\\n".join(commands), as lines
RunCommand(commands) ==
    List([i \in DOMAIN commands |->
            (IF i = 1 THEN "RUN " ELSE "") \o commands[i]
            \o (IF i < Len(commands) THEN " && \\" ELSE "")])

InjectLibraryFix(lines, commands) ==
    LET copies == {i \in DOMAIN lines : /\ IsCopyLine(Strip(lines[i]))
                                        /\ Contains(lines[i], "/challenge")}
    IN  IF commands # <<>> /\ copies # {}
        THEN InsertAfter(lines, Max(copies), <<"">> \o RunCommand(commands))
        ELSE lines

InjectInterpreterFix(lines, commands) ==
    LET relevant == {i \in DOMAIN lines :
                        /\ \/ IsCopyLine(Strip(lines[i]))
                           \/ UpperStartsWith(Strip(lines[i]), "RUN")
                        /\ \/ Contains(lines[i], "/challenge")
                           \/ Contains(lines[i], "patchelf")}
    IN  IF commands # <<>> /\ relevant # {}
        THEN InsertAfter(lines, Max(relevant), <<"">> \o RunCommand(commands))
        ELSE lines

\* The heredoc marker of a line: what follows its last '<<', without white
\* space and quotes.
heredoc_marker(line) ==
    LET at == {i \in 1..(Len(line) - 1) : SubSeq(line, i, i + 1) = "<<"}
    IN  StripChars(Strip(SubSeq(line, Max(at) + 2, Len(line))), {"'", "\""})

\* insert_index after the loop has looked at lines i, i + 1, ...
RECURSIVE ShebangInsertIndex(_, _, _)
ShebangInsertIndex(lines, i, insert_index) ==
    IF i > Len(lines) THEN insert_index
    ELSE LET line    == lines[i]
             closing == {j \in (i + 1)..Len(lines) : Strip(lines[j]) = heredoc_marker(line)}
         IN  IF \/ IsCopyLine(Strip(line)) /\ Contains(line, "/challenge")
                \/ /\ UpperStartsWith(Strip(line), "RUN")
                   /\ Contains(line, "<<") /\ Contains(line, "/challenge")
             THEN IF Contains(line, "<<")
                  THEN ShebangInsertIndex(lines, i + 1,
                                          IF closing = {} THEN insert_index ELSE Min(closing))
                  ELSE ShebangInsertIndex(lines, i + 1, i)
             ELSE ShebangInsertIndex(lines, i + 1, insert_index)

InjectShebangFix(lines, shebang_fix_command) ==
    LET InsertAt(insert_index) ==
            IF shebang_fix_command # <<>> /\ insert_index > 0
            THEN InsertAfter(lines, insert_index, <<"">> \o shebang_fix_command)
            ELSE lines
    IN  InsertAt(ShebangInsertIndex(lines, 1, 0))

\* process_task generates a Dockerfile only when server_needed, which it sets
\* only when the task has neither a sha256 file nor a check file.
has_sha256_file == FALSE

\* One iteration of the while loop on a response text.
ProcessResponse(response, task, base_image, fix_commands_in) ==
    LET setup == generate_adaptive_docker_setup(base_image, task.architecture,
                                                task.has_python_files, task.has_node_files)
        Content(stripped) ==
            remove_duplicate_docker_setup(
                InjectShebangFix(
                    InjectInterpreterFix(
                        InjectLibraryFix(ReplaceFrom(stripped, base_image, setup),
                                         fix_commands_in),
                        task.interpreter_fix_commands),
                    task.shebang_fix_command))
        Outcome(content, non_existing_files, flag) ==
            IF non_existing_files # <<>>
            THEN [outcome |-> "non_existing", content |-> content, flag |-> None,
                  non_existing_files |-> non_existing_files]
            ELSE IF ~has_sha256_file /\ flag = None
            THEN [outcome |-> "placeholder", content |-> content, flag |-> None,
                  non_existing_files |-> <<>>]
            ELSE [outcome |-> "return", content |-> content,
                  flag |-> IF has_sha256_file THEN None ELSE flag,
                  non_existing_files |-> <<>>]
        Checked(content) ==
            Outcome(content,
                    check_dockerfile_file_existence(content, task.available_files),
                    parse_flag_from_dockerfile(content))
        Iteration(stripped) ==
            IF ~NonBlankContent(stripped)
            THEN [outcome |-> "empty", content |-> <<>>, flag |-> None,
                  non_existing_files |-> <<>>]
            ELSE Checked(Content(stripped))
    IN  Iteration(StripFence(response))

(***************************************************************************)
(* The tasks and the oracle of SpecRetry.                                  *)
(*                                                                         *)
(* A task is its list of available files and what the analysis of its      *)
(* files finds: the library inventory, the binaries (of one architecture)  *)
(* and their architecture, the version in the provided libc, whether       *)
(* there are Python or Node files, and the fix commands for custom         *)
(* interpreter paths and for problematic shebangs.                         *)
(***************************************************************************)
TaskSamples ==
    {[task_name |-> "plain",
      available_files |-> <<"chall", "src/a.c">>,
      provided_libs |-> <<>>, binary_files |-> <<"chall">>, architecture |-> "64",
      libc_version |-> <<>>, has_python_files |-> FALSE, has_node_files |-> FALSE,
      interpreter_fix_commands |-> <<>>, shebang_fix_command |-> <<>>],
     [task_name |-> "libs32",
      available_files |-> <<"chall", "src/a.c", "libc.so.6", "ld-linux.so.2">>,
      provided_libs |-> [dynamic_linker |-> "ld-linux.so.2", libc |-> "libc.so.6"],
      binary_files |-> <<"chall">>, architecture |-> "32",
      libc_version |-> <<2, 23>>, has_python_files |-> FALSE, has_node_files |-> FALSE,
      interpreter_fix_commands |->
          <<"# Fix custom interpreter paths",
            "    patchelf --set-interpreter /lib/ld-linux.so.2 /challenge/chall">>,
      shebang_fix_command |-> <<>>],
     [task_name |-> "spaced",
      available_files |-> <<"chall", "src/a.c", "my notes.txt", "libc.so.6">>,
      provided_libs |-> [libc |-> "libc.so.6"],
      binary_files |-> <<"chall">>, architecture |-> "64",
      libc_version |-> <<2, 31>>, has_python_files |-> FALSE, has_node_files |-> FALSE,
      interpreter_fix_commands |-> <<>>, shebang_fix_command |-> <<>>],
     [task_name |-> "web",
      available_files |-> <<"chall", "src/a.c", "index.html", "run.py">>,
      provided_libs |-> <<>>, binary_files |-> <<"chall">>, architecture |-> "64",
      libc_version |-> <<>>, has_python_files |-> TRUE, has_node_files |-> FALSE,
      interpreter_fix_commands |-> <<>>,
      shebang_fix_command |->
          <<"RUN # Fix problematic shebangs in challenge files && \\",
            "    sed -i '1s|^#!\\/opt\\/pwn.college\\/python|#!\\/usr\\/bin\\/env python3|' /challenge/run.py">>]}

\* Three texts the oracle can answer with.
FencedText ==
    <<Fence \o "dockerfile",
      "FROM python:3.9",
      "COPY chall /challenge/",
      "COPY a.c /challenge/src/",
      "RUN chmod +x /challenge/chall",
      "RUN echo 'pwn.college{s3cret}' > /flag",
      "EXPOSE 1337",
      "CMD [\"/challenge/chall\"]",
      Fence>>

MissingFileText ==
    <<"FROM ubuntu:22.04",
      "COPY chall /challenge/",
      "COPY foo.bin /challenge/",
      "RUN dpkg --add-architecture i386 && \\",
      "    apt-get update",
      "RUN chmod +x /challenge/chall",
      "RUN echo 'pwn.college{...}' > /flag",
      "EXPOSE 1337",
      "CMD [\"/challenge/chall\"]">>

LooseText ==
    <<"from alpine",
      "add --chown=ctf:ctf src/ /challenge/src/",
      "RUN apt-get update && apt-get install -y socat",
      "RUN chmod +x /challenge/src/a.c \\",
      "RUN echo 'pwn.college{k3y}' > /flag && rm -f /challenge/flag.sha256",
      "ENTRYPOINT [\"/bin/sh\"]">>

\* A text that copies into the working directory, not into a path.
WorkdirText ==
    <<"FROM ubuntu:20.04",
      "WORKDIR /challenge",
      "COPY chall .",
      "RUN chmod +x chall",
      "RUN echo 'pwn.college{w0rk}' > /flag",
      "EXPOSE 1337",
      "CMD [\"./chall\"]">>

\* text without its line i; text itself for i = 0
Omit(text, i) == SubSeq(text, 1, i - 1) \o SubSeq(text, i + 1, Len(text))

\* What the oracle answers: a text above, whole or short of one instruction
\* (FROM, chmod, the flag, EXPOSE, CMD; the missing file), or a text without
\* content.
OracleTexts ==
    {Omit(FencedText, i) : i \in {0, 2, 5, 6, 7, 8}}
    \cup {Omit(MissingFileText, i) : i \in {0, 3}}
    \cup {LooseText, WorkdirText, <<"">>, <<"   ">>, <<Fence, Fence>>}

\* str(e) of the exceptions completion(...) raises: a transient error, a
\* wrong model, a missing provider, and a request of too many tokens.
CompletionErrors ==
    {"litellm.APIConnectionError: connection reset by peer",
     "litellm.BadRequestError: model not found",
     "LLM Provider NOT provided. Pass in the LLM provider you are trying to call",
     "litellm.BadRequestError: Input is too long for requested model"}

\* What one call of completion(...) does: it returns a response with a
\* content, or it raises.
CompletionOutcomes ==
    {[kind |-> "content", lines |-> text, error |-> ""] : text \in OracleTexts}
    \cup {[kind |-> "error", lines |-> <<>>, error |-> e] : e \in CompletionErrors}

\* "BadRequestError" in error_str or "LLM Provider NOT provided" in error_str
NonRetryable(error_str) ==
    Contains(error_str, "BadRequestError") \/ Contains(error_str, "LLM Provider NOT provided")

\* call_by_litllm with its loop at attempt, completions[k] being what the
\* k-th call of completion does: it returns a text, returns None or raises;
\* calls is the number of calls of completion it has made.
RECURSIVE call_by_litllm(_, _, _)
call_by_litllm(completions, llm_attempt, llm_max_retries) ==
    IF llm_attempt >= llm_max_retries
    THEN [kind |-> "None", lines |-> <<>>, error |-> "", calls |-> llm_attempt]
    ELSE LET Handle(c, error_str) ==
                 IF c.kind = "content" /\ JoinLines(c.lines) # ""
                 THEN [kind |-> "text", lines |-> c.lines, error |-> "",
                       calls |-> llm_attempt + 1]
                 ELSE IF Contains(error_str, "long")
                 THEN [kind |-> "None", lines |-> <<>>, error |-> "",
                       calls |-> llm_attempt + 1]
                 ELSE IF NonRetryable(error_str) \/ llm_attempt + 1 = llm_max_retries
                 THEN [kind |-> "raise", lines |-> <<>>, error |-> error_str,
                       calls |-> llm_attempt + 1]
                 ELSE call_by_litllm(completions, llm_attempt + 1, llm_max_retries)
         IN  Handle(completions[llm_attempt + 1],
                    IF completions[llm_attempt + 1].kind = "content"
                    THEN "No response from model"
                    ELSE completions[llm_attempt + 1].error)

\* call_by_litllm called with max_retries=2: up to two calls of completion
OracleResponses_TwoTries ==
    {call_by_litllm(<<c, d>>, 0, 2) : c \in CompletionOutcomes, d \in CompletionOutcomes}

\* call_by_litllm(messages, model=model, max_retries=1)
OracleResponses == {call_by_litllm(<<c>>, 0, 1) : c \in CompletionOutcomes}

\* str(e) in the except clause of call_model_for_dockerfile: the error
\* call_by_litllm raised, or the AttributeError of None.strip().
ResponseError(response) ==
    IF response.kind = "None" THEN "'NoneType' object has no attribute 'strip'"
    ELSE response.error

\* The except clause of call_model_for_dockerfile raises, with attempt
\* already counted up.
ExceptRaises(error_str, attempts, retries) == NonRetryable(error_str) \/ attempts >= retries

\* The base image call_model_for_dockerfile selects for a task.
BaseImage(task) ==
    select_compatible_base_image(task.provided_libs, "/task", task.libc_version)

\* What the loop of call_model_for_dockerfile can be given to process: a
\* task, a value of library_fix_commands and an answer of the oracle.
Requests ==
    UNION {{<<task, commands, text>> :
                commands \in LibraryFixChoices(task.provided_libs, task.binary_files,
                                               task.libc_version),
                text \in OracleTexts} : task \in TaskSamples}

\* One iteration of the while loop, for every request.
ProcessedResponses ==
    [q \in Requests |-> ProcessResponse(q[3], q[1], BaseImage(q[1]), q[2])]

\* A wrapper whose fallback strategies come up with nothing.
FallbackResult_Empty(task, tested) == [content |-> <<"">>, flag |-> None]

\* The fallback strategies of call_model_for_dockerfile_with_fallback: the
\* library-aware Dockerfile when the tests find no working configuration,
\* the minimal one otherwise.
FallbackResult(task, tested) ==
    IF /\ Truthy(task.provided_libs)
       /\ task.binary_files # <<>>
       /\ tested.working_config = "unknown"
    THEN [content |-> generate_fallback_dockerfile(task.available_files, task.provided_libs,
                                                   tested, task.binary_files[1]),
          flag    |-> IF has_sha256_file THEN None
                      ELSE "pwn.college{" \o task.task_name \o "_fallback_flag}"]
    ELSE [content |-> minimal_dockerfile,
          flag    |-> IF has_sha256_file THEN None
                      ELSE "pwn.college{" \o task.task_name \o "_minimal_flag}"]

\* What the outer loop does with a non-blank Dockerfile it was handed:
\* validate_and_fix_dockerfile, then validate_dockerfile for the issues.
OuterValidation(dockerfile, files) ==
    LET Validated(fixed) ==
            [content  |-> fixed.content,
             is_valid |-> fixed.is_valid,
             issues   |-> validate_dockerfile(fixed.content, files).issues]
    IN  Validated(validate_and_fix_dockerfile(dockerfile, files))

\* The Dockerfiles the outer loop can be handed for a task.
HandedOver(task) ==
    {r.content : r \in {p \in {ProcessedResponses[q] : q \in {q \in Requests : q[1] = task}} :
                            p.outcome = "return"}}
    \cup {FallbackResult(task, tested).content :
            tested \in TestOutcomes(task.provided_libs, task.binary_files,
                                    task.libc_version)}

\* The outer validation of every Dockerfile the outer loop can be handed.
OuterValidations ==
    [a \in UNION {{<<task.available_files, dockerfile>> : dockerfile \in HandedOver(task)} :
                     task \in TaskSamples}
        |-> OuterValidation(a[2], a[1])]

(***************************************************************************)
(* SpecRetry: generate_dockerfile_with_retries as a state machine, from    *)
(* the call by process_task to what process_task does with the result.     *)
(***************************************************************************)
max_dockerfile_retries == 5

RetryInit ==
    /\ task_data \in TaskSamples
    /\ max_retries \in 1..MaxRetries
    /\ dockerfile_retry_count = 0
    /\ dockerfile_generated = FALSE
    /\ dockerfile_content = <<>>
    /\ parsed_flag = None
    /\ is_valid = FALSE
    /\ validation_issues = <<>>
    /\ library_fix_commands = <<>>
    /\ attempt = 0
    /\ messages = [feedback |-> <<>>]
    /\ retry_pc = "outer"
    /\ retry_result = NoRetryResult
    /\ task_status = "generating"
    /\ file_issue_failures = 0
    /\ oracle_requests = 0

\* The loop condition with the cap off by one.
OuterLoopContinues_OneMore(generated, count) ==
    ~generated /\ count <= max_dockerfile_retries

\* The condition of the outer while loop.
OuterLoopContinues(generated, count) ==
    ~generated /\ count < max_dockerfile_retries

\* any("does not match any available files" in issue for issue in issues)
has_file_issues(issues) ==
    \E i \in DOMAIN issues : Contains(issues[i], "does not match any available files")

\* The outer loop taking whatever it is handed.
AcceptsArtifact_Always(valid, issues) == TRUE

\* The outer loop taking only what passes validation.
AcceptsArtifact_OnlyValid(valid, issues) == valid

\* Whether the outer loop takes a non-blank artifact with this validation.
AcceptsArtifact(valid, issues) == valid \/ ~has_file_issues(issues)

\* The return without the check of dockerfile_generated.
RetryResult_AlwaysSuccess(generated, content, flag) ==
    [content |-> content, flag |-> flag, success |-> TRUE, returned |-> TRUE]

\* What generate_dockerfile_with_retries returns after the loop.
RetryResult(generated, content, flag) ==
    IF ~generated
    THEN [content |-> <<>>, flag |-> None, success |-> FALSE, returned |-> TRUE]
    ELSE [content |-> content, flag |-> flag, success |-> TRUE, returned |-> TRUE]

\* call_model_for_dockerfile returns or raises: its locals are gone.
CallEnds ==
    /\ attempt' = 0
    /\ messages' = [feedback |-> <<>>]
    /\ library_fix_commands' = <<>>

\* An outer iteration begins: the count goes up and call_model_for_dockerfile
\* runs up to its loop (base image, library fix commands, first request).
StartAttempt ==
    /\ retry_pc = "outer"
    /\ OuterLoopContinues(dockerfile_generated, dockerfile_retry_count)
    /\ dockerfile_retry_count' = dockerfile_retry_count + 1
    /\ library_fix_commands' \in LibraryFixChoices(task_data.provided_libs,
                                                     task_data.binary_files,
                                                     task_data.libc_version)
    /\ attempt' = 0
    /\ messages' = [feedback |-> <<>>]
    /\ retry_pc' = "inner"
    /\ UNCHANGED <<task_data, max_retries, dockerfile_generated, dockerfile_content,
                   parsed_flag, is_valid, validation_issues, retry_result, task_status,
                   file_issue_failures>>
    /\ UNCHANGED oracle_requests
    /\ UNCHANGED nonRetryVars

\* One iteration of the loop of call_model_for_dockerfile: a request to the
\* oracle and the processing of its answer.
OracleAttempt ==
    /\ retry_pc = "inner"
    /\ attempt < max_retries
    /\ \E response \in OracleResponses :
       /\ oracle_requests' = oracle_requests + response.calls
       /\ IF response.kind = "text"
         THEN \E r \in {ProcessedResponses[<<task_data, library_fix_commands,
                                                 response.lines>>]} :
                  IF r.outcome = "return"
                  THEN /\ dockerfile_content' = r.content
                       /\ parsed_flag' = r.flag
                       /\ retry_pc' = "validate"
                       /\ CallEnds
                  ELSE /\ attempt' = attempt + 1
                       /\ messages' = IF r.outcome = "non_existing"
                                      THEN [feedback |-> r.non_existing_files]
                                      ELSE messages
                       /\ UNCHANGED <<dockerfile_content, parsed_flag, retry_pc,
                                      library_fix_commands>>
         ELSE IF ExceptRaises(ResponseError(response), attempt + 1, max_retries)
         THEN /\ retry_pc' = "fallback"
              /\ CallEnds
              /\ UNCHANGED <<dockerfile_content, parsed_flag>>
         ELSE /\ attempt' = attempt + 1
              /\ UNCHANGED <<dockerfile_content, parsed_flag, messages, retry_pc,
                             library_fix_commands>>
    /\ UNCHANGED <<task_data, max_retries, dockerfile_retry_count, dockerfile_generated,
                   is_valid, validation_issues, retry_result,
                   task_status, file_issue_failures>>
    /\ UNCHANGED nonRetryVars

\* The loop of call_model_for_dockerfile ends on its condition: the function
\* returns None, the unpacking in the outer loop raises, and the except
\* clause breaks out of the outer loop on the last attempt.
InnerExhausted ==
    /\ retry_pc = "inner"
    /\ attempt >= max_retries
    /\ retry_pc' = IF dockerfile_retry_count >= max_dockerfile_retries
                   THEN "after_loop" ELSE "outer"
    /\ CallEnds
    /\ UNCHANGED <<task_data, max_retries, dockerfile_retry_count, dockerfile_generated,
                   dockerfile_content, parsed_flag, is_valid, validation_issues,
                   retry_result, task_status, file_issue_failures>>
    /\ UNCHANGED oracle_requests
    /\ UNCHANGED nonRetryVars

\* call_model_for_dockerfile raised: the fallback strategies of
\* call_model_for_dockerfile_with_fallback.
Fallback ==
    /\ retry_pc = "fallback"
    /\ \E tested \in TestOutcomes(task_data.provided_libs, task_data.binary_files,
                                  task_data.libc_version) :
         /\ dockerfile_content' = FallbackResult(task_data, tested).content
         /\ parsed_flag' = FallbackResult(task_data, tested).flag
    /\ retry_pc' = "validate"
    /\ UNCHANGED <<task_data, max_retries, dockerfile_retry_count, dockerfile_generated,
                   is_valid, validation_issues, library_fix_commands, attempt, messages,
                   retry_result, task_status, file_issue_failures>>
    /\ UNCHANGED oracle_requests
    /\ UNCHANGED nonRetryVars

\* The outer loop validates, fixes and accepts or rejects what it was handed.
ValidateAttempt ==
    /\ retry_pc = "validate"
    /\ IF NonBlankContent(dockerfile_content)
       THEN \E fixed \in {OuterValidations[<<task_data.available_files,
                                                  dockerfile_content>>]} :
                /\ dockerfile_content' = fixed.content
                /\ is_valid' = fixed.is_valid
                /\ validation_issues' = IF fixed.is_valid THEN validation_issues
                                        ELSE fixed.issues
                /\ dockerfile_generated' = AcceptsArtifact(fixed.is_valid, fixed.issues)
                /\ file_issue_failures' =
                      IF AcceptsArtifact(fixed.is_valid, fixed.issues)
                      THEN file_issue_failures
                      ELSE file_issue_failures + 1
       ELSE UNCHANGED <<dockerfile_content, is_valid, validation_issues,
                        dockerfile_generated, file_issue_failures>>
    /\ retry_pc' = "outer"
    /\ UNCHANGED <<task_data, max_retries, dockerfile_retry_count, parsed_flag,
                   library_fix_commands, attempt, messages, retry_result, task_status>>
    /\ UNCHANGED oracle_requests
    /\ UNCHANGED nonRetryVars

\* The outer loop has ended, on its condition or by break.
ReturnResult ==
    /\ \/ retry_pc = "after_loop"
       \/ /\ retry_pc = "outer"
          /\ ~OuterLoopContinues(dockerfile_generated, dockerfile_retry_count)
    /\ retry_result' = RetryResult(dockerfile_generated, dockerfile_content, parsed_flag)
    /\ retry_pc' = "returned"
    /\ UNCHANGED <<task_data, max_retries, dockerfile_retry_count, dockerfile_generated,
                   dockerfile_content, parsed_flag, is_valid, validation_issues,
                   library_fix_commands, attempt, messages, task_status,
                   file_issue_failures>>
    /\ UNCHANGED oracle_requests
    /\ UNCHANGED nonRetryVars

\* process_task: no success, or a blank Dockerfile, fails the task.
ProcessTask ==
    /\ retry_pc = "returned"
    /\ task_status' = IF ~retry_result.success THEN "failed"
                      ELSE IF NonBlankContent(retry_result.content) THEN "dockerfile_written"
                      ELSE "failed"
    /\ retry_pc' = "done"
    /\ UNCHANGED <<task_data, max_retries, dockerfile_retry_count, dockerfile_generated,
                   dockerfile_content, parsed_flag, is_valid, validation_issues,
                   library_fix_commands, attempt, messages, retry_result,
                   file_issue_failures>>
    /\ UNCHANGED oracle_requests
    /\ UNCHANGED nonRetryVars

InitRetry == ResolverIdle /\ ArchIdle /\ RetryInit /\ ValidateIdle /\ ToolsIdle

NextRetry ==
    \/ StartAttempt
    \/ OracleAttempt
    \/ InnerExhausted
    \/ Fallback
    \/ ValidateAttempt
    \/ ReturnResult
    \/ ProcessTask

SpecRetry == InitRetry /\ [][NextRetry]_vars

\* The validation of a Dockerfile against the files of the task.
Validation(dockerfile) == validate_dockerfile(dockerfile, task_data.available_files)

\* generate_dockerfile_with_retries has returned the failure triple.
ReturnedFailure ==
    /\ retry_result.returned
    /\ ~retry_result.success
    /\ retry_result.content = <<>>
    /\ retry_result.flag = None

\* C3: the retry loop never makes more than 5 attempts; when it gives up,
\* which it does when every attempt failed on missing-file issues, it has
\* made exactly 5 attempts and returns the failure triple (empty artifact,
\* no flag, success False), and process_task reports the task as failed.
C3_HaltsAfterFiveAttempts ==
    /\ dockerfile_retry_count <= max_dockerfile_retries
    /\ file_issue_failures <= dockerfile_retry_count
    /\ (retry_pc \in {"after_loop", "returned", "done"} /\ ~dockerfile_generated)
          => dockerfile_retry_count = max_dockerfile_retries
    /\ (retry_pc = "outer" /\ ~dockerfile_generated
           /\ file_issue_failures = dockerfile_retry_count)
          => (ENABLED StartAttempt <=> dockerfile_retry_count < max_dockerfile_retries)
    /\ (retry_result.returned /\ ~dockerfile_generated) => ReturnedFailure
    /\ (retry_pc = "done" /\ ~retry_result.success) => task_status = "failed"

\* Every one of the 5 attempts failed on a missing-file issue, the loop
\* returned the failure triple and the task was reported as failed.
C3_Witness ==
    /\ retry_pc = "done"
    /\ file_issue_failures = max_dockerfile_retries
    /\ ReturnedFailure
    /\ task_status = "failed"

\* What a step that hands over or takes a Dockerfile does about missing
\* files: the loop of call_model_for_dockerfile returns no Dockerfile with a
\* COPY or ADD source that matches no file, and the outer loop takes no
\* Dockerfile whose validation has a missing-file issue.
C4_Step ==
    /\ (retry_pc = "inner" /\ retry_pc' = "validate")
          => check_dockerfile_file_existence(dockerfile_content',
                                             task_data.available_files) = <<>>
    /\ (retry_pc = "validate" /\ has_file_issues(Validation(dockerfile_content').issues))
          => (~dockerfile_generated' /\ retry_pc' = "outer")

\* C4: a Dockerfile with a missing-file issue is never accepted, by the
\* inner loop or by the outer loop, and whenever success = True is returned
\* the returned Dockerfile has no missing-file issue.
C4_MissingFileNeverAccepted ==
    /\ [](retry_result.success => ~has_file_issues(Validation(retry_result.content).issues))
    /\ [][C4_Step]_vars

\* Success is returned after the outer loop has rejected a Dockerfile for a
\* missing-file issue.
C4_Witness ==
    /\ retry_result.success
    /\ file_issue_failures > 0

\* C5 as stated: whenever success is reported, the returned Dockerfile
\* passed validation (validate_dockerfile returns is_valid = True for it).
C5_SuccessOnlyIfValid ==
    retry_result.success => Validation(retry_result.content).is_valid

\* C5, amended: whenever success is reported, the returned Dockerfile is not
\* blank and either passed validation or has validation issues none of which
\* is a missing-file issue; is_valid tells which. Otherwise the outcome is
\* the failure triple.
C5_SuccessOnlyIfValidOrNonFileIssues ==
    retry_result.returned =>
        IF dockerfile_generated
        THEN /\ retry_result.success
             /\ NonBlankContent(retry_result.content)
             /\ is_valid = Validation(retry_result.content).is_valid
             /\ \/ is_valid
                \/ /\ validation_issues = Validation(retry_result.content).issues
                   /\ \A i \in DOMAIN validation_issues :
                        ~Contains(validation_issues[i], "does not match any available files")
        ELSE ReturnedFailure

\* Success is returned for a Dockerfile that did not pass validation.
C5_Witness ==
    /\ retry_result.success
    /\ ~is_valid
    /\ validation_issues # <<>>

\* The outer loop validates a Dockerfile whose validation, after the fixes,
\* has no missing-file issue: it takes it in this attempt.
C6_Step ==
    (/\ retry_pc = "validate"
     /\ ~has_file_issues(Validation(dockerfile_content').issues))
        => /\ dockerfile_generated'
           /\ dockerfile_retry_count' = dockerfile_retry_count
           /\ ~OuterLoopContinues(dockerfile_generated', dockerfile_retry_count')

\* C6: a Dockerfile whose validation issues contain no missing-file issue,
\* whatever other issues it has, is accepted on the attempt that produced it,
\* without regeneration.
C6_NonFileIssuesAccepted == [][C6_Step]_vars

\* The first attempt is accepted with validation issues, among them the
\* security issue and a missing EXPOSE.
C6_Witness ==
    /\ retry_pc = "outer"
    /\ dockerfile_generated
    /\ dockerfile_retry_count = 1
    /\ ~is_valid
    /\ InList("Security issue: trying to copy flag.sha256 or flagcheck files",
              validation_issues)
    /\ InList("Missing EXPOSE instruction - challenge needs to be accessible over network",
              validation_issues)


\* C18: a non-retryable provider or configuration error of the oracle
\* (BadRequestError, provider not provided) is never retried: call_by_litllm
\* makes no further call of completion and raises the error, and
\* call_model_for_dockerfile makes no further request and raises; only other
\* errors are retried.
C18_NonRetryableNeverRetried ==
    (retry_pc = "inner" /\ attempt < max_retries) =>
        \A c \in {o \in CompletionOutcomes : o.kind = "error" /\ NonRetryable(o.error)} :
            /\ \A later \in CompletionOutcomes :
                  call_by_litllm(<<c, later>>, 0, 2) =
                      [kind |-> "raise", lines |-> <<>>, error |-> c.error, calls |-> 1]
            /\ call_by_litllm(<<c>>, 0, 1).kind = "raise"
            /\ ExceptRaises(ResponseError(call_by_litllm(<<c>>, 0, 1)),
                            attempt + 1, max_retries)

(***************************************************************************)
(* SpecValidate: validate_dockerfile and check_dockerfile_file_existence   *)
(* (forge/validators.py) called on a Dockerfile and a list of available    *)
(* files.  The Dockerfiles are the selections of the lines of              *)
(* ArtifactLines, in their order.                                          *)
(***************************************************************************)
ArtifactLines ==
    <<"FROM ubuntu:20.04",
      "COPY chall /challenge/",
      "COPY chall missing.c /challenge/",
      "COPY a.c /challenge/src/",
      "COPY --chown=ctf:ctf src/ /challenge/src/",
      "ADD *.txt /data/",
      "RUN chmod +x /challenge/chall",
      "RUN rm -f /challenge/flagcheck",
      "EXPOSE 1337",
      "CMD [\"/challenge/chall\"]">>

\* The lines of ArtifactLines at the positions of keep; "".split('\n') is [''].
Selection(keep) ==
    IF keep = {} THEN <<"">>
    ELSE SelectSeq(ArtifactLines, LAMBDA line : \E k \in keep : ArtifactLines[k] = line)

Artifacts == {Selection(keep) : keep \in SUBSET DOMAIN ArtifactLines}

FileLists == {<<"chall", "src/a.c", "notes.txt">>, <<"chall", "run.py">>, <<"index.html">>}

ValidateInit ==
    /\ artifact \in Artifacts
    /\ file_list \in FileLists
    /\ report = NoReport
    /\ validate_pc = "validate"

\* is_valid, issues = validate_dockerfile(dockerfile_content, available_files)
ValidateArtifact ==
    /\ validate_pc = "validate"
    /\ \E v \in {validate_dockerfile(artifact, file_list)} :
         report' = [report EXCEPT !.is_valid = v.is_valid, !.issues = v.issues]
    /\ validate_pc' = "check"
    /\ UNCHANGED <<artifact, file_list>>
    /\ UNCHANGED nonValidateVars

\* non_existing_files = check_dockerfile_file_existence(dockerfile_content, available_files)
CheckExistence ==
    /\ validate_pc = "check"
    /\ report' = [report EXCEPT !.non_existing_files =
                                   check_dockerfile_file_existence(artifact, file_list)]
    /\ validate_pc' = "done"
    /\ UNCHANGED <<artifact, file_list>>
    /\ UNCHANGED nonValidateVars

InitValidate == ResolverIdle /\ ArchIdle /\ RetryIdle /\ ValidateInit /\ ToolsIdle

NextValidate ==
    \/ ValidateArtifact
    \/ CheckExistence

SpecValidate == InitValidate /\ [][NextValidate]_vars

\* The lines of the artifact that are COPY or ADD directives.
CopyDirectives ==
    SelectSeq([i \in DOMAIN artifact |-> Strip(artifact[i])], IsCopyLine)

\* The sources of a directive: its words after the keyword, without the
\* flags and without the last word, the destination.
SourcesOf(directive) ==
    LET Named(words) == {words[k] : k \in 1..(Len(words) - 1)}
    IN  Named(SelectSeq(Tail(Split(directive)), LAMBDA word : ~StartsWith(word, "--")))

\* The source names a file of the list, or a pattern that matches one, or a
\* directory that holds one.
Resolves(source, files) ==
    \E i \in DOMAIN files :
        \/ files[i] = source
        \/ fnmatch(files[i], source)
        \/ StartsWith(files[i], RStripChars(source, {"/"}) \o "/")

\* C19: the validator reports a missing-file issue for every source of every
\* COPY or ADD directive (flags and the destination excluded) that resolves
\* to no entry of the file list by exact name, glob expansion or
\* directory-prefix expansion; a directive with several sources is checked
\* for each of them.
C19_EveryUnresolvedSourceReported ==
    validate_pc = "done" =>
        \A k \in DOMAIN CopyDirectives :
            \A source \in SourcesOf(CopyDirectives[k]) :
                ~Resolves(source, file_list) =>
                    /\ InList(MissingFileIssue(source), report.issues)
                    /\ InList(source, report.non_existing_files)

\* The lines of the artifact that are neither blank nor comments.
ContentLines ==
    SelectSeq([i \in DOMAIN artifact |-> Strip(artifact[i])],
              LAMBDA line : line # "" /\ ~StartsWith(line, "#"))

\* No content line starts with one of the keywords.
Lacks(keywords) ==
    \A i \in DOMAIN ContentLines : \A keyword \in keywords :
        ~UpperStartsWith(ContentLines[i], keyword)

\* Some content line names flag material or a flag-check file.
NamesForbiddenFile ==
    \E i \in DOMAIN ContentLines :
        InLower(ContentLines[i], "flag.sha256") \/ InLower(ContentLines[i], "flagcheck")

\* Some source of some COPY or ADD directive resolves to no entry of the list.
UnresolvedSources ==
    {source \in UNION {SourcesOf(CopyDirectives[k]) : k \in DOMAIN CopyDirectives} :
        ~Resolves(source, file_list)}

\* C20: validate_dockerfile runs its checks independently: for every
\* artifact, each check that fails (missing FROM, missing EXPOSE, missing
\* CMD/ENTRYPOINT, unresolved copy source, forbidden flag filename)
\* contributes its own issue regardless of the outcome of the other checks,
\* and is_valid is True exactly when the issue list is empty.
C20_ChecksAreIndependent ==
    validate_pc # "validate" =>
        /\ Lacks({"FROM"}) => InList("Missing FROM instruction", report.issues)
        /\ Lacks({"EXPOSE"}) =>
              InList("Missing EXPOSE instruction - challenge needs to be accessible over network",
                     report.issues)
        /\ Lacks({"CMD", "ENTRYPOINT"}) =>
              InList("Missing CMD or ENTRYPOINT - service won't start automatically",
                     report.issues)
        /\ \A source \in UnresolvedSources :
              InList(MissingFileIssue(source), report.issues)
        /\ NamesForbiddenFile =>
              InList("Security issue: trying to copy flag.sha256 or flagcheck files",
                     report.issues)
        /\ report.is_valid <=> (report.issues = <<>>)

(***************************************************************************)
(* SpecPool: the loop of main over the tasks (ctf_forge.py), sequential    *)
(* when args.workers is 1 and through a ThreadPoolExecutor otherwise.      *)
(* A task is its position in the list tasks.  process_task returns True    *)
(* or False or raises; what happens inside it is the matter of the other   *)
(* specifications.                                                         *)
(***************************************************************************)
MaxTasks == 3

MaxWorkers == 3

TaskNames == <<"pwn/chall", "web/site", "rev/crackme", "misc/extra">>

ProcessTaskOutcomes == {"True", "False", "raise"}

\* process_single_task without its try/except: the exception leaves it
process_single_task_Unguarded(outcome) == outcome

\* process_single_task: the value of process_task, False when it raises
process_single_task(outcome) == IF outcome = "raise" THEN "False" ELSE outcome

PoolInit ==
    /\ tasks \in {SubSeq(TaskNames, 1, n) : n \in 1..MaxTasks}
    /\ workers \in 1..MaxWorkers
    /\ futures = [t \in DOMAIN tasks |-> "none"]
    /\ future_result = [t \in DOMAIN tasks |-> "none"]
    /\ yielded = {}
    /\ seq_idx = 0
    /\ successful = 0
    /\ failed = 0
    /\ pool_pc = IF workers = 1 THEN "sequential" ELSE "submit"

\* What main does with the value of process_single_task or of future.result():
\* an exception leaves main, the counters as they are.
Count(value) ==
    /\ successful' = IF value = "True" THEN successful + 1 ELSE successful
    /\ failed' = IF value = "False" THEN failed + 1 ELSE failed
    /\ pool_pc' = IF value = "raise" THEN "raised" ELSE pool_pc

\* for i, task in enumerate(tasks, 1): if process_single_task(task): ...
SequentialTask ==
    /\ pool_pc = "sequential"
    /\ seq_idx < Len(tasks)
    /\ \E outcome \in ProcessTaskOutcomes :
         \E value \in {process_single_task(outcome)} :
            /\ future_result' = [future_result EXCEPT ![seq_idx + 1] = value]
            /\ Count(value)
    /\ seq_idx' = seq_idx + 1
    /\ UNCHANGED <<tasks, workers, futures, yielded>>
    /\ UNCHANGED mainVars
    /\ UNCHANGED <<selectVars, inventoryVars>>

\* The end of either loop.
PoolSummary ==
    /\ \/ pool_pc = "sequential" /\ seq_idx = Len(tasks)
       \/ pool_pc = "collect" /\ yielded = DOMAIN tasks
    /\ pool_pc' = "summary"
    /\ UNCHANGED <<tasks, workers, futures, future_result, yielded, seq_idx,
                   successful, failed>>
    /\ UNCHANGED mainVars
    /\ UNCHANGED <<selectVars, inventoryVars>>

\* futures.append(executor.submit(process_single_task, task)), in list order
Submit ==
    /\ pool_pc = "submit"
    /\ \E t \in DOMAIN tasks :
         /\ futures[t] = "none"
         /\ \A u \in 1..(t - 1) : futures[u] # "none"
         /\ futures' = [futures EXCEPT ![t] = "pending"]
         /\ pool_pc' = IF t = Len(tasks) THEN "collect" ELSE "submit"
    /\ UNCHANGED <<tasks, workers, future_result, yielded, seq_idx, successful, failed>>
    /\ UNCHANGED mainVars
    /\ UNCHANGED <<selectVars, inventoryVars>>

\* A free worker thread takes the oldest pending work item of the queue.
WorkerStart ==
    /\ Cardinality({t \in DOMAIN tasks : futures[t] = "running"}) < workers
    /\ \E t \in DOMAIN tasks :
         /\ futures[t] = "pending"
         /\ \A u \in 1..(t - 1) : futures[u] # "pending"
         /\ futures' = [futures EXCEPT ![t] = "running"]
    /\ UNCHANGED <<tasks, workers, future_result, yielded, seq_idx, successful, failed,
                   pool_pc>>
    /\ UNCHANGED mainVars
    /\ UNCHANGED <<selectVars, inventoryVars>>

\* The worker's call of process_single_task ends; the future holds its value
\* or its exception.
WorkerFinish ==
    /\ \E t \in DOMAIN tasks :
         /\ futures[t] = "running"
         /\ \E outcome \in ProcessTaskOutcomes :
              future_result' = [future_result EXCEPT ![t] = process_single_task(outcome)]
         /\ futures' = [futures EXCEPT ![t] = "finished"]
    /\ UNCHANGED <<tasks, workers, yielded, seq_idx, successful, failed, pool_pc>>
    /\ UNCHANGED mainVars
    /\ UNCHANGED <<selectVars, inventoryVars>>

\* for future in as_completed(futures): result = future.result(); ...
Collect ==
    /\ pool_pc = "collect"
    /\ \E t \in DOMAIN tasks :
         /\ futures[t] = "finished"
         /\ t \notin yielded
         /\ yielded' = yielded \cup {t}
         /\ Count(future_result[t])
    /\ UNCHANGED <<tasks, workers, futures, future_result, seq_idx>>
    /\ UNCHANGED mainVars
    /\ UNCHANGED <<selectVars, inventoryVars>>

InitPool ==
    /\ ResolverIdle /\ ArchIdle /\ RetryIdle /\ ValidateIdle
    /\ PoolInit /\ SelectIdle /\ InventoryIdle

NextPool ==
    \/ SequentialTask
    \/ Submit
    \/ WorkerStart
    \/ WorkerFinish
    \/ Collect
    \/ PoolSummary

SpecPool == InitPool /\ [][NextPool]_vars

\* Under fair scheduling of main and of the worker threads.
SpecPoolLive == SpecPool /\ WF_vars(NextPool)

Processed == {t \in DOMAIN tasks : future_result[t] # "none"}

\* The tasks main has counted: every processed one in the sequential loop,
\* the futures as_completed has yielded in the parallel one.
Counted == IF workers = 1 THEN Processed ELSE yielded

\* C21: tasks are processed independently by the worker pool: an exception
\* or failure in one task never prevents any other task from being
\* processed, each submitted task is counted exactly once, and when the pool
\* finishes successful + failed equals the number of submitted tasks under
\* every interleaving of workers.
C21_TasksIndependentAndCountedOnce ==
    /\ pool_pc # "raised"
    /\ successful = Cardinality({t \in Counted : future_result[t] = "True"})
    /\ failed = Cardinality({t \in Counted : future_result[t] = "False"})
    /\ pool_pc = "summary" =>
          /\ Processed = DOMAIN tasks
          /\ successful + failed = Len(tasks)

\* The pool always reaches the summary.
PoolFinishes == <>(pool_pc = "summary")

\* Several workers have finished three tasks, of which at least one
\* succeeded and at least one failed or raised.
C21_Witness ==
    /\ pool_pc = "summary"
    /\ workers > 1
    /\ Len(tasks) = 3
    /\ successful >= 1
    /\ failed >= 1

(***************************************************************************)
(* SpecSelect: one call of select_compatible_base_image (forge/ctf_forge.py *)
(* and, line for line the same, ctf_forge.py).  A GLIBC version is the     *)
(* text detect_glibc_version returns, the match of \d+\.\d+, or None.      *)
(***************************************************************************)
MaxMajor == 3

MaxMinor == 40

Digits == <<"0", "1", "2", "3", "4", "5", "6", "7", "8", "9">>

\* int(text) for a text of decimal digits
RECURSIVE ToInt(_)
ToInt(text) ==
    IF text = "" THEN 0
    ELSE 10 * ToInt(SubSeq(text, 1, Len(text) - 1))
         + (CHOOSE d \in 0..9 : Digits[d + 1] = SubSeq(text, Len(text), Len(text)))

\* text.split('.')
RECURSIVE SplitDots(_)
SplitDots(text) ==
    LET dots == {i \in 1..Len(text) : SubSeq(text, i, i) = "."}
        Cut(at) == <<SubSeq(text, 1, at - 1)>> \o SplitDots(SubSeq(text, at + 1, Len(text)))
    IN  IF dots = {} THEN <<text>>
        ELSE Cut(CHOOSE i \in dots : \A j \in dots : i <= j)

\* The text of a version as a libc prints it.
VersionText(major, minor) == ToString(major) \o "." \o ToString(minor)

\* Versions a libc can print, two of them with a zero before the minor
\* number, and None.
DetectedVersions ==
    {VersionText(major, minor) : major \in 1..MaxMajor, minor \in 0..MaxMinor}
        \cup {"2.025", "2.07", None}

\* version_mapping.get(glibc_version): the keys of the table are texts
version_mapping_get(glibc_version) ==
    LET keys == {v \in {<<2, minor>> : minor \in 23..38} :
                    VersionText(v[1], v[2]) = glibc_version}
    IN  IF keys = {} THEN None ELSE version_mapping(CHOOSE v \in keys : TRUE)

\* The branch for a version that is not a key of the table.
educated_guess(glibc_version) ==
    LET Guess(major, minor) ==
            IF major = 2 /\ minor <= 23 THEN "ubuntu:16.04"
            ELSE IF major = 2 /\ minor <= 27 THEN "ubuntu:18.04"
            ELSE IF major = 2 /\ minor <= 31 THEN "ubuntu:20.04"
            ELSE "ubuntu:22.04"
        Parts(version_parts) ==
            IF Len(version_parts) >= 2
            THEN Guess(ToInt(version_parts[1]), ToInt(version_parts[2]))
            ELSE default_base
    IN  Parts(SplitDots(glibc_version))

SelectInit ==
    /\ select_libs \in LibraryInventories
    /\ select_path \in {"", TaskDir}
    /\ detected_version \in DetectedVersions
    /\ select_pc = "call"
    /\ selected_image = ""

\* Does the call reach the detection of the version and find one.
VersionDetected ==
    /\ Truthy(select_libs)
    /\ "libc" \in DOMAIN select_libs
    /\ select_path # ""
    /\ detected_version # None

\* return default_base: no library, no libc, no task path or no version
SelectDefault ==
    /\ select_pc = "call"
    /\ ~VersionDetected
    /\ selected_image' = default_base
    /\ select_pc' = "returned"
    /\ UNCHANGED <<select_libs, select_path, detected_version>>
    /\ UNCHANGED mainVars
    /\ UNCHANGED <<poolVars, inventoryVars>>

\* return compatible_base: the version is a key of the table
SelectFromTable ==
    /\ select_pc = "call"
    /\ VersionDetected
    /\ version_mapping_get(detected_version) # None
    /\ selected_image' = version_mapping_get(detected_version)
    /\ select_pc' = "returned"
    /\ UNCHANGED <<select_libs, select_path, detected_version>>
    /\ UNCHANGED mainVars
    /\ UNCHANGED <<poolVars, inventoryVars>>

\* the educated guess for a version that is no key of the table
SelectByBand ==
    /\ select_pc = "call"
    /\ VersionDetected
    /\ version_mapping_get(detected_version) = None
    /\ selected_image' = educated_guess(detected_version)
    /\ select_pc' = "returned"
    /\ UNCHANGED <<select_libs, select_path, detected_version>>
    /\ UNCHANGED mainVars
    /\ UNCHANGED <<poolVars, inventoryVars>>

InitSelect ==
    /\ ResolverIdle /\ ArchIdle /\ RetryIdle /\ ValidateIdle
    /\ PoolIdle /\ SelectInit /\ InventoryIdle

NextSelect ==
    \/ SelectDefault
    \/ SelectFromTable
    \/ SelectByBand

SpecSelect == InitSelect /\ [][NextSelect]_vars

\* (major, minor) of a version text, and the order of versions.
VersionOf(text) == <<ToInt(SplitDots(text)[1]), ToInt(SplitDots(text)[2])>>

AtMost(v, w) == v[1] < w[1] \/ (v[1] = w[1] /\ v[2] <= w[2])

\* The image of the band a version lies in.
BandImage(v) ==
    IF AtMost(v, <<2, 23>>) THEN "ubuntu:16.04"
    ELSE IF AtMost(v, <<2, 27>>) THEN "ubuntu:18.04"
    ELSE IF AtMost(v, <<2, 31>>) THEN "ubuntu:20.04"
    ELSE "ubuntu:22.04"

\* C22: for a GLIBC version that is parseable but not in the static table,
\* select_compatible_base_image applies banded thresholds on (major, minor):
\* version <= 2.23 gives ubuntu:16.04, <= 2.27 ubuntu:18.04, <= 2.31
\* ubuntu:20.04, and anything higher ubuntu:22.04, for every major and minor
\* number.
C22_BandedThresholds ==
    (/\ select_pc = "returned"
     /\ VersionDetected
     /\ version_mapping_get(detected_version) = None) =>
        selected_image = BandImage(VersionOf(detected_version))

NewestTier == "ubuntu:22.04"

\* C23: when no custom libc is present, or its version cannot be detected,
\* select_compatible_base_image returns the newest-tier image, the tag the
\* final band returns for versions above 2.31.
C23_DefaultIsNewestTier ==
    (/\ select_pc = "returned"
     /\ \/ "libc" \notin DOMAIN select_libs
        \/ detected_version = None) =>
        /\ selected_image = NewestTier
        /\ selected_image = educated_guess(VersionText(2, 32 + MaxMinor))

LTSImages == {"ubuntu:16.04", "ubuntu:18.04", "ubuntu:20.04", "ubuntu:22.04"}

\* C24: every exact version in the static table of
\* select_compatible_base_image maps to a long-term-support image tag (one
\* of ubuntu:16.04, ubuntu:18.04, ubuntu:20.04, ubuntu:22.04); the selector
\* never returns a non-LTS tag.
C24_OnlyLTSImages ==
    select_pc = "returned" => selected_image \in LTSImages

(***************************************************************************)
(* SpecInventory: one call of detect_provided_libraries (forge/ctf_forge.py *)
(* and, line for line the same, ctf_forge.py).  The dict it builds is a    *)
(* function from its keys.                                                 *)
(***************************************************************************)
MaxInventory == 3

LibraryFileNames ==
    {"ld-linux.so.2", "libdl.so.2", "libc.so.6", "LIBC.SO.6", "libssl.so", "LibCrypto.so",
     "libc.so", "chall"}

\* The file lists without repetition of at most MaxInventory names.
InventoryFileLists ==
    {f \in UNION {[1..n -> LibraryFileNames] : n \in 0..MaxInventory} :
        \A i, j \in DOMAIN f : i # j => f[i] # f[j]}

\* d[key] = value
SetItem(d, key, value) == [k \in DOMAIN d \cup {key} |-> IF k = key THEN value ELSE d[k]]

\* The three tests of the loop body on one file, in the order of the code.
ScanFileInto(provided, file_path) ==
    LET Other(d, file_name) ==
            IF StartsWith(file_name, "lib") /\ EndsWith(file_name, ".so")
            THEN SetItem(d, SplitDots(file_name)[1], file_path) ELSE d
        Libc(d, file_name) ==
            Other(IF file_name = "libc.so.6" THEN SetItem(d, "libc", file_path) ELSE d,
                  file_name)
        Linker(d, file_name) ==
            Libc(IF EndsWith(file_name, ".so.2") THEN SetItem(d, "dynamic_linker", file_path)
                 ELSE d,
                 file_name)
    IN  Linker(provided, Lower(file_path))

InventoryInit ==
    /\ inventory_files \in InventoryFileLists
    /\ inventory_idx = 0
    /\ inventory = <<>>
    /\ inventory_pc = "loop"

\* for file_path in available_files: one iteration
ScanFile ==
    /\ inventory_pc = "loop"
    /\ inventory_idx < Len(inventory_files)
    /\ inventory' = ScanFileInto(inventory, inventory_files[inventory_idx + 1])
    /\ inventory_idx' = inventory_idx + 1
    /\ UNCHANGED <<inventory_files, inventory_pc>>
    /\ UNCHANGED mainVars
    /\ UNCHANGED <<poolVars, selectVars>>

\* return provided_libs
InventoryReturn ==
    /\ inventory_pc = "loop"
    /\ inventory_idx = Len(inventory_files)
    /\ inventory_pc' = "returned"
    /\ UNCHANGED <<inventory_files, inventory_idx, inventory>>
    /\ UNCHANGED mainVars
    /\ UNCHANGED <<poolVars, selectVars>>

InitInventory ==
    /\ ResolverIdle /\ ArchIdle /\ RetryIdle /\ ValidateIdle
    /\ PoolIdle /\ SelectIdle /\ InventoryInit

NextInventory ==
    \/ ScanFile
    \/ InventoryReturn

SpecInventory == InitInventory /\ [][NextInventory]_vars

\* The file is recorded under the key.
Recorded(key, file_path) == key \in DOMAIN inventory /\ inventory[key] = file_path

\* The name of a lib*.so file without its extension, in lower case.
Stem(file_path) == SubSeq(Lower(file_path), 1, Len(file_path) - Len(".so"))

\* C25: detect_provided_libraries assigns roles by filename convention,
\* case-insensitively: every file whose name ends in .so.2 is recorded as
\* dynamic_linker, every file named exactly libc.so.6 as libc, and every
\* lib*.so file under the key of its stem; every value in the returned
\* mapping is a path from the supplied file list.
C25_RolesByFilenameConvention ==
    inventory_pc = "returned" =>
        /\ \A i \in DOMAIN inventory_files :
              LET file_path == inventory_files[i]
              IN  /\ EndsWith(Lower(file_path), ".so.2") => Recorded("dynamic_linker", file_path)
                  /\ Lower(file_path) = "libc.so.6" => Recorded("libc", file_path)
                  /\ (StartsWith(Lower(file_path), "lib") /\ EndsWith(Lower(file_path), ".so"))
                        => Recorded(Stem(file_path), file_path)
        /\ \A key \in DOMAIN inventory : InList(inventory[key], inventory_files)

(***************************************************************************)
(* The two functions of forge/analysis.py that SpecArch applies to each    *)
(* file of the task.                                                       *)
(***************************************************************************)
\* C26: for every file whose first four bytes are the ELF magic,
\* analyze_executable_content returns 'binary' whatever the rest of the
\* content, the shebang, the keywords or the file extension are.
C26_ELFMagicIsBinary ==
    \A i \in DOMAIN task_files :
        LET f == disk[task_files[i]]
        IN  (f.ftype = "file" /\ StartsWith(f.bytes, ELFMagic)) =>
                /\ analyze_executable_content(f) = "binary"
                /\ (i < file_idx /\ Len(f.bytes) >= 5 /\ f.bytes[5] = 1)
                      => InList(task_files[i], files_32bit)
                /\ (i < file_idx /\ Len(f.bytes) >= 5 /\ f.bytes[5] = 2)
                      => InList(task_files[i], files_64bit)

\* An ELF file that carries a shebang, keywords and a script extension has
\* been classified and counted as a 64-bit binary.
C26_Witness ==
    \E i \in DOMAIN task_files :
        /\ i < file_idx
        /\ StartsWith(disk[task_files[i]].bytes, ELFMagic)
        /\ disk[task_files[i]].text.shebang = "python"
        /\ disk[task_files[i]].text.ext = ".py"
        /\ InList(task_files[i], files_64bit)

\* What the claim expects of a file: the class byte of a readable regular
\* file that starts with the ELF magic and has a fifth byte.
ClassByte(f) ==
    IF f.ftype = "file" /\ StartsWith(f.bytes, ELFMagic) /\ Len(f.bytes) >= 5
    THEN f.bytes[5] ELSE 0

\* C27: detect_elf_architecture returns '32' when the ELF class byte
\* (EI_CLASS) is 1, '64' when it is 2, and 'unknown' for any other class
\* byte, for a truncated header, and for any non-ELF or unreadable file; it
\* never raises.
C27_ClassByteDecidesArchitecture ==
    \A i \in DOMAIN task_files :
        LET f == disk[task_files[i]]
        IN  /\ detect_elf_architecture(f) \in {"32", "64", "unknown"}
            /\ ClassByte(f) = 1 <=> detect_elf_architecture(f) = "32"
            /\ ClassByte(f) = 2 <=> detect_elf_architecture(f) = "64"
            /\ (i < file_idx /\ ClassByte(f) \notin {1, 2}) =>
                  ~InList(task_files[i], files_32bit) /\ ~InList(task_files[i], files_64bit)

\* The loop has gone over a truncated ELF header, an ELF file of an invalid
\* class and an ELF file of class 1.
C27_Witness ==
    /\ arch_pc = "returned"
    /\ \E i, j, k \in DOMAIN task_files :
          /\ disk[task_files[i]].bytes = ELFMagic
          /\ ClassByte(disk[task_files[j]]) = 3
          /\ ClassByte(disk[task_files[k]]) = 1
          /\ files_32bit = <<task_files[k]>>

(***************************************************************************)
(* What call_model_for_dockerfile does with the library fix commands.      *)
(***************************************************************************)
\* The positions at which the RUN instruction of the commands stands in the
\* artifact.
FixPositions(content, commands) ==
    {i \in DOMAIN content :
        /\ i + Len(commands) - 1 <= Len(content)
        /\ SubSeq(content, i, i + Len(commands) - 1) = RunCommand(commands)}

\* The positions of the copy directives of the oracle's text in the artifact.
CopyPositions(content) == {i \in DOMAIN content : IsCopyLine(Strip(content[i]))}

\* The artifacts call_model_for_dockerfile returns for the present request.
ReturnedArtifacts ==
    {r.content : r \in {p \in {ProcessedResponses[<<task_data, library_fix_commands, text>>] :
                                   text \in OracleTexts} : p.outcome = "return"}}

\* C28: whenever the list of library fix commands is non-empty, the artifact
\* returned by call_model_for_dockerfile contains those commands as a RUN
\* instruction placed after the last copy directive of the generated text;
\* fix commands are never silently dropped.
C28_FixCommandsNeverDropped ==
    (retry_pc = "inner" /\ library_fix_commands # <<>>) =>
        \A content \in ReturnedArtifacts :
            \E i \in FixPositions(content, library_fix_commands) :
                \A j \in CopyPositions(content) : j < i

(***************************************************************************)
(* The oracle requests of one call of generate_dockerfile_with_retries.    *)
(***************************************************************************)
\* C29: for one call of generate_dockerfile_with_retries the number of
\* oracle generation requests is bounded by 5 * max_retries: each of the at
\* most 5 outer attempts runs the inner loop of call_model_for_dockerfile,
\* which makes at most max_retries requests and, when every inner attempt
\* fails on missing files, ends without a result (and without raising),
\* which the outer loop counts as one failed attempt.
C29_RequestsBounded ==
    /\ dockerfile_retry_count <= max_dockerfile_retries
    /\ attempt <= max_retries
    /\ oracle_requests <= dockerfile_retry_count * max_retries
    /\ oracle_requests <= max_dockerfile_retries * max_retries
    /\ (retry_pc = "inner" /\ attempt = max_retries) =>
          /\ ENABLED InnerExhausted
          /\ ~ENABLED Fallback

\* Five outer attempts of MaxRetries requests each, none of them answered
\* with a text call_model_for_dockerfile returns, and no fallback: the call
\* returns without success.
C29_Witness ==
    /\ retry_pc = "returned"
    /\ max_retries = MaxRetries
    /\ oracle_requests = max_dockerfile_retries * max_retries
    /\ file_issue_failures = 0
    /\ ~retry_result.success

(***************************************************************************)
(* The fallback of call_model_for_dockerfile_with_fallback.                *)
(***************************************************************************)
\* The flag of a Dockerfile the fallback strategies built.
IsFallbackFlag(flag) == EndsWith(flag, "_fallback_flag}") \/ EndsWith(flag, "_minimal_flag}")

\* C30: when call_model_for_dockerfile raises (oracle errors exhausted
\* max_retries, or a non-retryable error),
\* call_model_for_dockerfile_with_fallback does not propagate the error but
\* returns a non-empty locally built fallback or minimal Dockerfile, so
\* generate_dockerfile_with_retries can report success = True for a task
\* for which the oracle never produced any artifact.
C30_FallbackInsteadOfError ==
    /\ retry_pc = "fallback" =>
          \A tested \in TestOutcomes(task_data.provided_libs, task_data.binary_files,
                                     task_data.libc_version) :
              NonBlankContent(FallbackResult(task_data, tested).content)
    /\ (retry_pc = "validate" /\ IsFallbackFlag(parsed_flag)) =>
          NonBlankContent(dockerfile_content)

\* One outer attempt, one oracle request, which raised: the call returns the
\* locally built Dockerfile with success = True.
C30_Witness ==
    /\ retry_pc = "returned"
    /\ dockerfile_retry_count = 1
    /\ oracle_requests = 1
    /\ retry_result.success
    /\ IsFallbackFlag(retry_result.flag)
    /\ NonBlankContent(retry_result.content)
====
